---- MODULE Spec2Model ----
(***************************************************************************)
(* Code-Execution-Engine: admission queue (queue.service.js), HTTP routes  *)
(* (execute.route.js, judge.route.js), verdict engine (judge.service.js)   *)
(* and the two batch-executor backends (executor.service.js, the process   *)
(* executor).                                                              *)
(***************************************************************************)
EXTENDS Integers, Sequences, FiniteSets, TLC

\* ------------------------------------------------------------------ bounds
\* Number of enqueue() calls explored.
NumTasks == 4

\* Number of HTTP requests explored by the server specification.
NumReqs == 3

\* Largest number of submissions in a batch-judge request that is explored.
MaxSubs == 2

\* Largest number of test cases of a submission in the server specification.
ServerCases == 2

\* Largest number of test cases of a judged submission that is explored.
MaxCases == 3

\* Largest number of inputs of a batchExecute() call that is explored.
MaxInputs == 2

\* Longest string given to _normalize that is explored.
MaxStrLen == 4

\* Largest NUM_CASES of the batch sandbox runner that is explored.
MaxRunCases == 2

\* config.MAX_CONCURRENT (default)
MaxConcurrent == 2

\* "Maximum 10 submissions per batch"
BatchMax == 10

Tasks == 1..NumTasks

Reqs == 1..NumReqs

\* ---------------------------------------------------------------- state
VARIABLES
    \* QueueService fields
    running, waiting, totalProcessed, totalFailed,
    \* macrotasks scheduled with setImmediate and not yet run
    pendingWake,
    \* per enqueue() call: what the task thunk is, where the call is, the
    \* outcome of the task body and the future returned to the caller
    kind, phase, body, fut, settles,
    \* number of enqueue() calls so far, and the order in which bodies started
    enqueued, startSeq,
    \* last object returned by getStatus()
    status,
    \* history: some enqueue() ran between a completion and its wake-up while
    \* another task was waiting
    raced,
    \* HTTP requests received so far: their number and, per request, the
    \* route, the submissions, the results collected and the response
    arrived, req,
    \* per task enqueued by a route: its request, its test cases, the locals
    \* of its judge() call and its executor.execute() calls in progress
    treq, ttc, tjs, execActive,
    \* judge(): the testCases argument and the locals of the call in progress
    jtc, js,
    \* one execute()/batchExecute() call: the backend, the language tag, the
    \* number of inputs, where the call is, the work directory on disk, the
    \* error it threw, the results it returns, what _runDocker resolved with,
    \* the verdict found in meta.txt, the loop index of the process backend,
    \* and whether fs.rm failed
    backend, xlang, xn, xpc, workDir, xerr, xres, xdocker, xmeta, xcase,
    rmFailed,
    \* _normalize: the string under test and the results of the successive
    \* applications
    nstr, nout,
    \* one run of a sandbox runner script: which script, $1 (language) and
    \* NUM_CASES, where the script is, the loop index, RUN_EXIT, the files
    \* it wrote (meta records and the line appended to stderr, per case),
    \* and, per case, how the child really ended
    runner, rlang, rnum, rpc, rcase, rexit, rmeta, rerr, rcause,
    \* the HTTP request whose way through validation is followed: the route
    \* and the submission bodies it carries
    hreq,
    \* the server process has called process.exit()
    exited,
    \* the _runProcess calls of one batchExecute(): their number and the
    \* index of the one in progress and, per call, what the program does,
    \* the state of the child (proc), of the timer of spawn's timeout
    \* option and of the timer of _runProcess, the local timedOut, what
    \* ended the child, the value the promise resolved with and the verdict
    \* of _runTestCase
    pnum, pcur, prog, proc, spawnTimer, timer, timedOut, endedBy, resolved,
    pverdict,
    \* the output of one run followed from the program to the verdict: the
    \* backend, what the program printed, the expected output, the output
    \* in the value execute() returned, the verdict of _getVerdict, and how
    \* far the run is
    tback, tout, texp, tres, tverdict, tpc,
    \* the work directory of one execute() / batchExecute() call: the
    \* backend, the number of inputs, the call's position, the directory,
    \* the processes started for the call, the one awaited, whether
    \* execFile's timeout signalled the docker client, and the log of what
    \* happened to the directory and the processes
    lback, ln, lpc, ldir, lbox, lcur, lkilled, llog,
    \* the limits of one execute() / batchExecute() call: those of the request,
    \* the effective ones after clamping, and how far the call is
    creq, ceff, cpc,
    \* the start of the server: the EXECUTION_MODE environment value, whether
    \* the host has a docker daemon and the sandbox image, the position of
    \* bootstrap(), the docker commands invoked and the requests served
    menv, mdocker, mimage, mpc, mused, mserved

qvars == <<running, waiting, totalProcessed, totalFailed, pendingWake,
           kind, phase, body, fut, settles, enqueued, startSeq, raced>>

svars == <<arrived, req, treq, ttc, tjs, execActive>>

jvars == <<jtc, js>>

xvars == <<backend, xlang, xn, xpc, workDir, xerr, xres, xdocker, xmeta,
           xcase, rmFailed>>

nvars == <<nstr, nout>>

rvars == <<runner, rlang, rnum, rpc, rcase, rexit, rmeta, rerr, rcause>>

\* The life of the server process.
ovars == <<exited>>

pvars == <<pnum, pcur, prog, proc, spawnTimer, timer, timedOut, endedBy,
           resolved, pverdict>>

tvars == <<tback, tout, texp, tres, tverdict, tpc>>

lvars == <<lback, ln, lpc, ldir, lbox, lcur, lkilled, llog>>

cvars == <<creq, ceff, cpc>>

mvars == <<menv, mdocker, mimage, mpc, mused, mserved>>

\* The server process and the calls followed on their own.
wvars == <<ovars, pvars, tvars, lvars, cvars, mvars>>

\* The components outside the server process's queue, routes, judge and
\* executor calls.
evars == <<nvars, rvars, hreq, wvars>>

vars == <<qvars, status, svars, jvars, xvars, evars>>
\* ------------------------------------------------------- judge.service.js
\* Strings are sequences of one-character strings.
IsSpace(c) == c \in {" ", "\t", "\n", "\r"}

\* Variant: only one trailing white-space character is removed.
TrimEndOne(str) ==
    IF str = <<>> THEN <<>>
    ELSE IF IsSpace(str[Len(str)]) THEN SubSeq(str, 1, Len(str) - 1)
    ELSE str

\* String.prototype.trimEnd
RECURSIVE TrimEnd(_)
TrimEnd(str) ==
    IF str = <<>> THEN <<>>
    ELSE IF IsSpace(str[Len(str)]) THEN TrimEnd(SubSeq(str, 1, Len(str) - 1))
    ELSE str

\* str.replace(/\r\n/g, "\n"): every CR LF pair, from the left, becomes LF.
\* The recursion is on the pairs, so that long strings without many pairs can
\* be evaluated.
RECURSIVE ReplaceCRLF(_)
ReplaceCRLF(str) ==
    IF \A k \in 1..(Len(str) - 1) : ~(str[k] = "\r" /\ str[k + 1] = "\n")
    THEN str
    ELSE LET k == CHOOSE k \in 1..(Len(str) - 1) :
                      /\ str[k] = "\r" /\ str[k + 1] = "\n"
                      /\ \A m \in 1..(k - 1) :
                             ~(str[m] = "\r" /\ str[m + 1] = "\n")
         IN  SubSeq(str, 1, k - 1) \o <<"\n">>
                 \o ReplaceCRLF(SubSeq(str, k + 2, Len(str)))

\* str.split("\n"): the sequence of lines (always at least one)
RECURSIVE SplitLines(_)
SplitLines(str) ==
    IF \A k \in 1..Len(str) : str[k] # "\n" THEN <<str>>
    ELSE LET k == CHOOSE k \in 1..Len(str) :
                      /\ str[k] = "\n"
                      /\ \A m \in 1..(k - 1) : str[m] # "\n"
         IN  <<SubSeq(str, 1, k - 1)>> \o SplitLines(SubSeq(str, k + 1, Len(str)))

\* lines.join("\n")
RECURSIVE JoinLines(_)
JoinLines(lines) ==
    IF Len(lines) = 0 THEN <<>>
    ELSE IF Len(lines) = 1 THEN lines[1]
    ELSE lines[1] \o <<"\n">> \o JoinLines(Tail(lines))

\* An absent string (undefined or null).
Absent == <<"undefined">>

\* _normalize(str)
Normalize(str) ==
    IF str = Absent \/ str = <<>> THEN <<>>
    ELSE LET lines == SplitLines(ReplaceCRLF(str))
         IN  TrimEnd(JoinLines([k \in 1..Len(lines) |-> TrimEnd(lines[k])]))

\* Variant: a verdict other than OK is compared like OK.
GetVerdictIgnoresStatus(result, expectedOutput) ==
    IF Normalize(result.output) = Normalize(expectedOutput) THEN "AC" ELSE "WA"

\* _getVerdict(result, expectedOutput)
GetVerdict(result, expectedOutput) ==
    IF result.verdict # "OK" THEN result.verdict
    ELSE IF Normalize(result.output) = Normalize(expectedOutput) THEN "AC"
    ELSE "WA"

\* maxLen argument of the _truncate calls in judge()
JudgeTruncLen == 1000

\* JudgeService._truncate(str, maxLen)
JudgeTruncate(str, maxLen) ==
    IF str = <<>> THEN <<>>
    ELSE IF Len(str) <= maxLen THEN str
    ELSE SubSeq(str, 1, maxLen) \o <<".", ".", ".">>

\* firstFailedTestCase = null
Null == 0

\* The local `result` before the first execute() has returned.
NoResult == [verdict |-> "none", output |-> <<>>]

\* Locals of judge() before the first iteration; i is the loop index
\* (0-based), result is what the last execute() returned, ret the object
\* the call returned, pc tells whether the call awaits an execute(), has
\* returned or has rejected.  sandboxes and compilations count what the
\* execute() calls of this judge() are known to have done.
JudgeStart ==
    [i |-> 0, results |-> <<>>, overallVerdict |-> "AC",
     firstFailedTestCase |-> Null, result |-> NoResult, ret |-> Null,
     sandboxes |-> 0, compilations |-> 0, pc |-> "exec"]

\* No judge() call.
JudgeIdle ==
    [i |-> 0, results |-> <<>>, overallVerdict |-> "AC",
     firstFailedTestCase |-> Null, result |-> NoResult, ret |-> Null,
     sandboxes |-> 0, compilations |-> 0, pc |-> "idle"]

\* Variant: the cases after a compilation error are tagged CE.
SkippedEntryAsCE(testCases, j) ==
    [testCase |-> j + 1, verdict |-> "CE",
     input |-> JudgeTruncate(testCases[j + 1].input, JudgeTruncLen),
     expectedOutput |-> JudgeTruncate(testCases[j + 1].expectedOutput,
                                      JudgeTruncLen),
     actualOutput |-> <<>>]

\* The entry pushed for test case j (0-based) when a compilation error ends
\* the loop.
SkippedEntry(testCases, j) ==
    [testCase |-> j + 1, verdict |-> "SKIPPED",
     input |-> JudgeTruncate(testCases[j + 1].input, JudgeTruncLen),
     expectedOutput |-> JudgeTruncate(testCases[j + 1].expectedOutput,
                                      JudgeTruncLen),
     actualOutput |-> <<>>]

\* Variant: the loop ends on CE without filling in the remaining cases.
SkippedTailNone(testCases, i) == <<>>

\* for (j = i + 1; j < testCases.length; j++) results.push({... SKIPPED ...})
SkippedTail(testCases, i) ==
    [k \in 1..(Len(testCases) - (i + 1)) |-> SkippedEntry(testCases, i + k)]

\* results.filter(pred).length
RECURSIVE CountVerdicts(_, _)
CountVerdicts(results, verdicts) ==
    IF results = <<>> THEN 0
    ELSE (IF Head(results).verdict \in verdicts THEN 1 ELSE 0)
             + CountVerdicts(Tail(results), verdicts)

\* Every tag a per-case entry of judge() can carry.
ResultTags == {"AC", "WA", "TLE", "MLE", "RE", "CE", "IE", "OK", "SKIPPED"}

\* Variant: failed counts every entry that is not AC.
JudgeReturnFailedNotAC(st, testCases) ==
    [overallVerdict |-> st.overallVerdict,
     totalTestCases |-> Len(testCases),
     passed |-> CountVerdicts(st.results, {"AC"}),
     failed |-> CountVerdicts(st.results, ResultTags \ {"AC"}),
     skipped |-> CountVerdicts(st.results, {"SKIPPED"}),
     firstFailedTestCase |-> st.firstFailedTestCase,
     results |-> st.results]

\* The object judge() returns.
JudgeReturn(st, testCases) ==
    [overallVerdict |-> st.overallVerdict,
     totalTestCases |-> Len(testCases),
     passed |-> CountVerdicts(st.results, {"AC"}),
     failed |-> CountVerdicts(st.results, ResultTags \ {"AC", "SKIPPED"}),
     skipped |-> CountVerdicts(st.results, {"SKIPPED"}),
     firstFailedTestCase |-> st.firstFailedTestCase,
     results |-> st.results]

\* Variant: every failure overwrites the aggregate.
TrackLastFailure(st, verdict, i) ==
    IF verdict # "AC"
    THEN [st EXCEPT !.overallVerdict = verdict, !.firstFailedTestCase = i + 1]
    ELSE st

\* Variant: a wrong answer does not count as a failure.
TrackFirstError(st, verdict, i) ==
    IF verdict \notin {"AC", "WA"} /\ st.overallVerdict = "AC"
    THEN [st EXCEPT !.overallVerdict = verdict, !.firstFailedTestCase = i + 1]
    ELSE st

\* "Track first failure": if (verdict !== "AC" && overallVerdict === "AC")
TrackFirstFailure(st, verdict, i) ==
    IF verdict # "AC" /\ st.overallVerdict = "AC"
    THEN [st EXCEPT !.overallVerdict = verdict, !.firstFailedTestCase = i + 1]
    ELSE st

\* execute() serves one input: each call makes its own work directory,
\* starts its own sandbox (docker run, or the children of the process
\* backend) and compiles there.  The verdicts OK, CE and TLE are only
\* written after that was done (meta.txt of the runner, _compile and
\* _runTestCase); RE, MLE and IE are also given to calls that failed before.
RanSandbox(st, result) ==
    IF result.verdict \in {"OK", "CE", "TLE"} THEN 1 ELSE 0

\* Variant: the loop goes on after a compilation error.
JudgeIterNoBreak(st, testCases, result) ==
    LET i == st.i
        tc == testCases[i + 1]
        verdict == GetVerdict(result, tc.expectedOutput)
        testResult ==
            [testCase |-> i + 1, verdict |-> verdict,
             input |-> JudgeTruncate(tc.input, JudgeTruncLen),
             expectedOutput |-> JudgeTruncate(tc.expectedOutput, JudgeTruncLen),
             actualOutput |-> JudgeTruncate(result.output, JudgeTruncLen)]
        st1 == TrackFirstFailure(
                   [st EXCEPT !.results = Append(@, testResult),
                              !.result = result,
                              !.sandboxes = @ + RanSandbox(st, result),
                              !.compilations = @ + RanSandbox(st, result)],
                   verdict, i)
        st2 == [st1 EXCEPT !.i = i + 1,
                           !.pc = IF i + 1 < Len(testCases)
                                  THEN "exec" ELSE "returned"]
    IN  IF st2.pc = "returned"
        THEN [st2 EXCEPT !.ret = JudgeReturn(st2, testCases)]
        ELSE st2

\* One iteration of the loop of judge(), from the value execute() returned
\* for test case i to the next await (or the return).
JudgeIter(st, testCases, result) ==
    LET i == st.i
        tc == testCases[i + 1]
        verdict == GetVerdict(result, tc.expectedOutput)
        testResult ==
            [testCase |-> i + 1, verdict |-> verdict,
             input |-> JudgeTruncate(tc.input, JudgeTruncLen),
             expectedOutput |-> JudgeTruncate(tc.expectedOutput, JudgeTruncLen),
             actualOutput |-> JudgeTruncate(result.output, JudgeTruncLen)]
        st1 == TrackFirstFailure(
                   [st EXCEPT !.results = Append(@, testResult),
                              !.result = result,
                              !.sandboxes = @ + RanSandbox(st, result),
                              !.compilations = @ + RanSandbox(st, result)],
                   verdict, i)
        st2 == IF verdict = "CE"
               THEN [st1 EXCEPT !.results = @ \o SkippedTail(testCases, i),
                                !.pc = "returned"]
               ELSE [st1 EXCEPT !.i = i + 1,
                                !.pc = IF i + 1 < Len(testCases)
                                       THEN "exec" ELSE "returned"]
    IN  IF st2.pc = "returned"
        THEN [st2 EXCEPT !.ret = JudgeReturn(st2, testCases)]
        ELSE st2

\* Test cases and executor results explored for one judge() call.
TestCaseSet ==
    {[input |-> <<"1">>, expectedOutput |-> <<"a">>],
     [input |-> <<"2">>, expectedOutput |-> <<"a", " ", "\r", "\n">>]}

RunVerdicts == {"OK", "CE", "TLE", "MLE", "RE", "IE"}

\* Runs that end well with matching and with different output, a run that
\* crashes after printing the expected output, and runs without output.
ExecResults ==
    {[verdict |-> "OK", output |-> <<"a", "\n">>],
     [verdict |-> "OK", output |-> <<"b">>],
     [verdict |-> "RE", output |-> <<"a">>]}
        \cup {[verdict |-> v, output |-> <<>>] : v \in RunVerdicts \ {"OK"}}

TestCaseLists ==
    UNION {[1..n -> TestCaseSet] : n \in 1..MaxCases}

\* ------------------------------------------------------- queue.service.js
Pending == [state |-> "pending", from |-> 0]

NoStatus == [running |-> 0, waiting |-> 0, maxConcurrent |-> MaxConcurrent,
             totalProcessed |-> 0, totalFailed |-> 0]

\* The queue, its tasks and the requests behind them as one value, so that
\* _process and the continuation of a route can be applied in the middle of
\* a handler.
Q == [running |-> running, waiting |-> waiting,
      totalProcessed |-> totalProcessed, totalFailed |-> totalFailed,
      pendingWake |-> pendingWake, kind |-> kind, phase |-> phase,
      body |-> body, fut |-> fut, settles |-> settles,
      enqueued |-> enqueued, startSeq |-> startSeq, raced |-> raced,
      req |-> req, treq |-> treq, ttc |-> ttc, tjs |-> tjs,
      execActive |-> execActive]

SetQ(q) ==
    /\ running' = q.running
    /\ waiting' = q.waiting
    /\ totalProcessed' = q.totalProcessed
    /\ totalFailed' = q.totalFailed
    /\ pendingWake' = q.pendingWake
    /\ kind' = q.kind
    /\ phase' = q.phase
    /\ body' = q.body
    /\ fut' = q.fut
    /\ settles' = q.settles
    /\ enqueued' = q.enqueued
    /\ startSeq' = q.startSeq
    /\ raced' = q.raced
    /\ req' = q.req
    /\ treq' = q.treq
    /\ ttc' = q.ttc
    /\ tjs' = q.tjs
    /\ execActive' = q.execActive

\* Variant: totalProcessed++ sits in the finally block.
SettleCountsAll(q, e, outcome) ==
    [q EXCEPT
        !.totalProcessed = @ + 1,
        !.totalFailed = IF outcome = "error" THEN @ + 1 ELSE @,
        !.body[e.task] = outcome,
        !.fut[e.resolve] = [state |-> IF outcome = "value" THEN "resolved"
                                                           ELSE "rejected",
                            from |-> e.task],
        !.settles[e.resolve] = @ + 1,
        !.phase[e.task] = "done",
        !.running = @ - 1,
        !.pendingWake = @ + 1]

\* Variant: the wake-up is not scheduled.
SettleNoWake(q, e, outcome) ==
    [q EXCEPT
        !.totalProcessed = IF outcome = "value" THEN @ + 1 ELSE @,
        !.totalFailed = IF outcome = "error" THEN @ + 1 ELSE @,
        !.body[e.task] = outcome,
        !.fut[e.resolve] = [state |-> IF outcome = "value" THEN "resolved"
                                                           ELSE "rejected",
                            from |-> e.task],
        !.settles[e.resolve] = @ + 1,
        !.phase[e.task] = "done",
        !.running = @ - 1]

\* Variant: the slot is released in the try block only.
SettleLeaky(q, e, outcome) ==
    [q EXCEPT
        !.totalProcessed = IF outcome = "value" THEN @ + 1 ELSE @,
        !.totalFailed = IF outcome = "error" THEN @ + 1 ELSE @,
        !.body[e.task] = outcome,
        !.fut[e.resolve] = [state |-> IF outcome = "value" THEN "resolved"
                                                           ELSE "rejected",
                            from |-> e.task],
        !.settles[e.resolve] = @ + 1,
        !.phase[e.task] = "done",
        !.running = IF outcome = "value" THEN @ - 1 ELSE @,
        !.pendingWake = IF outcome = "value" THEN @ + 1 ELSE @]

\* Variant: the catch block resolves instead of rejecting.
SettleSwallow(q, e, outcome) ==
    [q EXCEPT
        !.totalProcessed = IF outcome = "value" THEN @ + 1 ELSE @,
        !.totalFailed = IF outcome = "error" THEN @ + 1 ELSE @,
        !.body[e.task] = outcome,
        !.fut[e.resolve] = [state |-> "resolved", from |-> e.task],
        !.settles[e.resolve] = @ + 1,
        !.phase[e.task] = "done",
        !.running = @ - 1,
        !.pendingWake = @ + 1]

\* try { result = await task(); totalProcessed++; resolve(result) }
\* catch (err) { totalFailed++; reject(err) }
\* finally { running--; setImmediate(() => this._process()) }
\* e is the waiting-list entry {task, resolve, reject} the invocation holds.
Settle(q, e, outcome) ==
    [q EXCEPT
        !.totalProcessed = IF outcome = "value" THEN @ + 1 ELSE @,
        !.totalFailed = IF outcome = "error" THEN @ + 1 ELSE @,
        !.body[e.task] = outcome,
        !.fut[e.resolve] = [state |-> IF outcome = "value" THEN "resolved"
                                                           ELSE "rejected",
                            from |-> e.task],
        !.settles[e.resolve] = @ + 1,
        !.phase[e.task] = "done",
        !.running = @ - 1,
        !.pendingWake = @ + 1]

\* Variant: off-by-one capacity test.
HasCapacityOffByOne(r) == r <= MaxConcurrent

\* Capacity test at the top of _process.
HasCapacity(r) == r < MaxConcurrent

\* Variant: judge() launches all its test cases at once (Promise.all).
StartBodyParallel(q, e) ==
    IF q.kind[e.task] = "throw" THEN Settle(q, e, "error")
    ELSE IF q.kind[e.task] = "judge"
         THEN [q EXCEPT !.execActive[e.task] = Len(q.ttc[e.task])]
    ELSE IF q.kind[e.task] = "execute"
         THEN [q EXCEPT !.execActive[e.task] = 1]
    ELSE q

\* await task(): the thunk runs up to its first await.  A thunk that throws
\* synchronously goes through catch and finally in the same turn; the thunks
\* of the routes call executorService.execute() (directly, or for the first
\* test case of judge()); any other thunk just stays pending.
StartBody(q, e) ==
    IF q.kind[e.task] = "throw" THEN Settle(q, e, "error")
    ELSE IF q.kind[e.task] \in {"execute", "judge"}
         THEN [q EXCEPT !.execActive[e.task] = 1]
    ELSE q

\* Variant: pop() instead of shift().
ProcessNewest(q) ==
    IF ~HasCapacity(q.running) \/ q.waiting = <<>>
    THEN q
    ELSE LET e == q.waiting[Len(q.waiting)]
         IN  StartBody([q EXCEPT !.waiting = SubSeq(@, 1, Len(@) - 1),
                                 !.running = @ + 1,
                                 !.startSeq = Append(@, e.task),
                                 !.phase[e.task] = "running"], e)

\* _process(): up to the first await.
Process(q) ==
    IF ~HasCapacity(q.running) \/ q.waiting = <<>>
    THEN q
    ELSE LET e == Head(q.waiting)
         IN  StartBody([q EXCEPT !.waiting = Tail(@),
                                 !.running = @ + 1,
                                 !.startSeq = Append(@, e.task),
                                 !.phase[e.task] = "running"], e)

\* Entry pushed by enqueue(task).
Entry(t) == [task |-> t, resolve |-> t]

\* Variant: the new entry goes to the front of the waiting list (unshift).
EnqueueOpFront(q, k, r, tcs) ==
    LET t == q.enqueued + 1
    IN  Process([q EXCEPT
            !.waiting = <<Entry(t)>> \o @,
            !.kind[t] = k,
            !.phase[t] = "waiting",
            !.treq[t] = r,
            !.ttc[t] = tcs,
            !.enqueued = t,
            !.raced = @ \/ (q.pendingWake > 0 /\ q.running < MaxConcurrent
                                              /\ q.waiting # <<>>)])

\* enqueue(task) applied to q: push, then _process().  Calls are numbered in
\* call order; k is the kind of thunk, r the request it belongs to (0: none)
\* and tcs its test cases.
EnqueueOp(q, k, r, tcs) ==
    LET t == q.enqueued + 1
    IN  Process([q EXCEPT
            !.waiting = Append(@, Entry(t)),
            !.kind[t] = k,
            !.phase[t] = "waiting",
            !.treq[t] = r,
            !.ttc[t] = tcs,
            !.enqueued = t,
            !.raced = @ \/ (q.pendingWake > 0 /\ q.running < MaxConcurrent
                                              /\ q.waiting # <<>>)])

\* enqueue(task) called with a thunk that belongs to no route.
Enqueue(k) ==
    /\ enqueued < NumTasks
    /\ SetQ(EnqueueOp(Q, k, 0, <<>>))
    /\ UNCHANGED <<status, arrived, jvars, xvars, evars>>

\* The promise returned by the body of a thunk that belongs to no route
\* settles; the rest of _process (after the await) runs in one microtask.
Complete(t, outcome) ==
    /\ phase[t] = "running"
    /\ kind[t] = "async"
    /\ SetQ(Settle(Q, Entry(t), outcome))
    /\ UNCHANGED <<status, arrived, jvars, xvars, evars>>

\* Variant: the callback does not call _process().
WakeNoProcess ==
    /\ pendingWake > 0
    /\ pendingWake' = pendingWake - 1
    /\ UNCHANGED <<running, waiting, totalProcessed, totalFailed, kind, phase,
                   body, fut, settles, startSeq, enqueued, status, raced,
                   svars, jvars, xvars, evars>>

\* The setImmediate callback: () => this._process()
Wake ==
    /\ pendingWake > 0
    /\ SetQ(Process([Q EXCEPT !.pendingWake = @ - 1]))
    /\ UNCHANGED <<status, arrived, jvars, xvars, evars>>

\* getStatus()
GetStatus ==
    /\ status' = [running |-> running, waiting |-> Len(waiting),
                  maxConcurrent |-> MaxConcurrent,
                  totalProcessed |-> totalProcessed,
                  totalFailed |-> totalFailed]
    /\ UNCHANGED <<qvars, svars, jvars, xvars, evars>>

\* new QueueService(), no task enqueued yet
QInit ==
    /\ running = 0
    /\ waiting = <<>>
    /\ totalProcessed = 0
    /\ totalFailed = 0
    /\ pendingWake = 0
    /\ kind = [t \in Tasks |-> "async"]
    /\ phase = [t \in Tasks |-> "idle"]
    /\ body = [t \in Tasks |-> "none"]
    /\ fut = [t \in Tasks |-> Pending]
    /\ settles = [t \in Tasks |-> 0]
    /\ enqueued = 0
    /\ startSeq = <<>>
    /\ status = NoStatus
    /\ raced = FALSE
    /\ treq = [t \in Tasks |-> 0]
    /\ ttc = [t \in Tasks |-> <<>>]
    /\ tjs = [t \in Tasks |-> JudgeIdle]
    /\ execActive = [t \in Tasks |-> 0]

EnqueueAsync == Enqueue("async")

EnqueueThrowing == Enqueue("throw")

TaskResolves == \E t \in Tasks : Complete(t, "value")

TaskRejects == \E t \in Tasks : Complete(t, "error")

\* ------------------------------- routes: execute.route.js, judge.route.js
\* No response sent yet.
NoResp == 0

NoReq == [type |-> "none", subs |-> <<>>, results |-> <<>>, resp |-> NoResp]

\* The test case and the executor results explored behind the routes.
ServerTestCase == [input |-> <<"1">>, expectedOutput |-> <<"a">>]

ServerExecResults ==
    {[verdict |-> "OK", output |-> <<"a", "\n">>],
     [verdict |-> "CE", output |-> <<>>]}

\* testCases of a submission with n test cases
CasesOf(n) == [k \in 1..n |-> ServerTestCase]

\* Smaller of two numbers.
Min(a, b) == IF a <= b THEN a ELSE b

\* The submissions arrays explored for batch-judge, each submission given by
\* its number of test cases: submission k has k of them (ServerCases at
\* most), so that the submissions of a batch can be told apart; and one array
\* longer than the route accepts.
BatchBodies ==
    {[k \in 1..m |-> Min(k, ServerCases)] : m \in 0..MaxSubs}
        \cup {[k \in 1..(BatchMax + 1) |-> 1]}

\* enqueue() calls a request r of q will still make.
StillToEnqueue(q, r) ==
    IF q.req[r].type = "batch" /\ q.req[r].resp = NoResp
    THEN Len(q.req[r].subs)
             - Cardinality({t \in 1..q.enqueued : q.treq[t] = r})
    ELSE 0

RECURSIVE SumOver(_, _)
SumOver(f, S) ==
    IF S = {} THEN 0
    ELSE LET x == CHOOSE x \in S : TRUE IN f[x] + SumOver(f, S \ {x})

\* The explored requests make at most NumTasks enqueue() calls in all.
Room(m) ==
    enqueued + SumOver([r \in Reqs |-> StillToEnqueue(Q, r)], Reqs) + m
        <= NumTasks

\* What the route handler of task t does when the future of its enqueue()
\* settles: /execute and /judge answer 200 with the result, or pass the error
\* to the error handler (500); /batch-judge pushes the result and enqueues
\* the next submission, answers 200 after the last one, and leaves the loop
\* through catch when the future rejects.
AfterSettle(q, t, outcome) ==
    LET r == q.treq[t]
        results == Append(q.req[r].results, t)
    IN  IF r = 0 THEN q
        ELSE IF outcome = "error" THEN [q EXCEPT !.req[r].resp = 500]
        ELSE IF q.req[r].type = "batch"
             THEN IF Len(results) < Len(q.req[r].subs)
                  THEN EnqueueOp([q EXCEPT !.req[r].results = results],
                                 "judge", r,
                                 CasesOf(q.req[r].subs[Len(results) + 1]))
                  ELSE [q EXCEPT !.req[r].results = results,
                                 !.req[r].resp = 200]
        ELSE [q EXCEPT !.req[r].results = results, !.req[r].resp = 200]

\* The body of task t is over: _process settles the future and the route
\* handler awaiting it continues, all within one turn of the event loop.
Finish(q, t, outcome) == AfterSettle(Settle(q, Entry(t), outcome), t, outcome)

\* A field the request body does not have.
Missing == -1

\* config.MAX_CODE_SIZE, MAX_TIME_LIMIT, MAX_MEMORY_LIMIT (defaults), and the
\* bounds written in the Joi schemas.
MaxCodeSize == 65536

MaxTimeLimit == 10

MinMemoryLimit == 16

MaxMemoryLimit == 512

MaxTestCases == 50

\* A submission body: the language tag ("absent" when there is none), the
\* length of code, timeLimit, memoryLimit and the number of test cases.
\* This one passes validation (testCases apart, which /execute does not
\* accept and /judge requires).
ValidBody(n) ==
    [language |-> "cpp", code |-> 1, timeLimit |-> Missing,
     memoryLimit |-> Missing, testCases |-> n]

\* The keys executeSchema and judgeSchema share: language (required, one of
\* the catalogue), code (required, 1..MAX_CODE_SIZE characters), timeLimit
\* and memoryLimit (optional, within their ranges).
ValidFields(b) ==
    /\ b.language \in {"c", "cpp", "python"}
    /\ b.code # Missing /\ b.code >= 1 /\ b.code <= MaxCodeSize
    /\ b.timeLimit = Missing \/ b.timeLimit \in 1..MaxTimeLimit
    /\ b.memoryLimit = Missing \/ b.memoryLimit \in MinMemoryLimit..MaxMemoryLimit

\* executeSchema.validate(req.body) reports no error (the schema has no
\* testCases key and Joi refuses unknown keys).
ValidExecute(b) == ValidFields(b) /\ b.testCases = Missing

\* judgeSchema.validate(req.body) reports no error.
ValidJudge(b) ==
    /\ ValidFields(b)
    /\ b.testCases # Missing
    /\ b.testCases \in 1..MaxTestCases

\* POST /api/execute with body b: validateExecution, then the handler.
ExecuteRoute(b) ==
    /\ arrived < NumReqs
    /\ Room(1)
    /\ LET r == arrived + 1
           q0 == [Q EXCEPT !.req[r] = [NoReq EXCEPT !.type = "execute"]]
       IN  IF ~ValidExecute(b)
           THEN SetQ([q0 EXCEPT !.req[r].resp = 400])
           ELSE SetQ(EnqueueOp(q0, "execute", r, <<>>))
    /\ arrived' = arrived + 1
    /\ UNCHANGED <<status, jvars, xvars, evars>>

\* POST /api/judge with body b: validateJudge, then the handler.
JudgeRoute(b) ==
    /\ arrived < NumReqs
    /\ Room(1)
    /\ LET r == arrived + 1
           q0 == [Q EXCEPT !.req[r] = [NoReq EXCEPT !.type = "judge",
                                                    !.subs = <<b.testCases>>]]
       IN  IF ~ValidJudge(b)
           THEN SetQ([q0 EXCEPT !.req[r].resp = 400])
           ELSE SetQ(EnqueueOp(q0, "judge", r, CasesOf(b.testCases)))
    /\ arrived' = arrived + 1
    /\ UNCHANGED <<status, jvars, xvars, evars>>

\* Variant: the first two submissions are enqueued together.
BatchRouteAll(bodies) ==
    /\ arrived < NumReqs
    /\ Room(IF Len(bodies) \in 1..BatchMax THEN Len(bodies) ELSE 0)
    /\ LET r == arrived + 1
           subs == [k \in 1..Len(bodies) |-> bodies[k].testCases]
           q0 == [Q EXCEPT !.req[r] = [NoReq EXCEPT !.type = "batch",
                                                    !.subs = subs]]
       IN  IF Len(subs) \notin 1..BatchMax
           THEN SetQ([q0 EXCEPT !.req[r].resp = 400])
           ELSE LET q1 == EnqueueOp(q0, "judge", r, CasesOf(subs[1]))
                IN  IF Len(subs) = 1 THEN SetQ(q1)
                    ELSE SetQ(EnqueueOp(q1, "judge", r, CasesOf(subs[2])))
    /\ arrived' = arrived + 1
    /\ UNCHANGED <<status, jvars, xvars, evars>>

\* POST /api/batch-judge with the submissions array bodies: the handler
\* checks the length of the array and enqueues judge(submission) for the
\* first submission; the others follow as the futures settle.
BatchRoute(bodies) ==
    /\ arrived < NumReqs
    /\ Room(IF Len(bodies) \in 1..BatchMax THEN Len(bodies) ELSE 0)
    /\ LET r == arrived + 1
           subs == [k \in 1..Len(bodies) |-> bodies[k].testCases]
           q0 == [Q EXCEPT !.req[r] = [NoReq EXCEPT !.type = "batch",
                                                    !.subs = subs]]
       IN  IF Len(subs) \notin 1..BatchMax
           THEN SetQ([q0 EXCEPT !.req[r].resp = 400])
           ELSE SetQ(EnqueueOp(q0, "judge", r, CasesOf(subs[1])))
    /\ arrived' = arrived + 1
    /\ UNCHANGED <<status, jvars, xvars, evars>>

\* POST /api/execute with a valid body
PostExecute == ExecuteRoute(ValidBody(Missing))

\* POST /api/judge with a valid body of n test cases
PostJudge(n) == JudgeRoute(ValidBody(n))

\* POST /api/batch-judge with valid submissions, given by their numbers of
\* test cases
PostBatchJudge(subs) ==
    BatchRoute([k \in 1..Len(subs) |-> ValidBody(subs[k])])

\* An executorService.execute() call made by the body of task t returns
\* result: an execute task is over; a judge task runs one iteration of its
\* loop, which calls execute() for the next test case or returns.
ExecuteReturns(t, result) ==
    /\ phase[t] = "running"
    /\ execActive[t] > 0
    /\ LET q1 == [Q EXCEPT !.execActive[t] = @ - 1]
           st == JudgeIter(tjs[t], ttc[t], result)
           q2 == [q1 EXCEPT !.tjs[t] = st]
       IN  IF kind[t] = "execute" THEN SetQ(Finish(q1, t, "value"))
           ELSE IF st.pc = "exec"
                THEN SetQ([q2 EXCEPT !.execActive[t] = @ + 1])
           ELSE SetQ(Finish(q2, t, "value"))
    /\ UNCHANGED <<status, arrived, jvars, xvars, evars>>

\* An executorService.execute() call made by the body of task t rejects: the
\* body rejects (judge() has no try around the call).
ExecuteRejects(t) ==
    /\ phase[t] = "running"
    /\ execActive[t] > 0
    /\ LET q1 == [Q EXCEPT !.execActive[t] = @ - 1,
                           !.tjs[t].pc = IF kind[t] = "judge" THEN "rejected"
                                                              ELSE @]
       IN  SetQ(Finish(q1, t, "error"))
    /\ UNCHANGED <<status, arrived, jvars, xvars, evars>>

PostJudgeAny == \E n \in 1..ServerCases : PostJudge(n)

PostBatchJudgeAny == \E subs \in BatchBodies : PostBatchJudge(subs)

ExecuteReturnsAny ==
    \E t \in Tasks : \E result \in ServerExecResults : ExecuteReturns(t, result)

ExecuteRejectsAny == \E t \in Tasks : ExecuteRejects(t)

\* ------------------- executor.service.js, the process executor, file.util.js
\* Object.keys(config.LANGUAGES)
Languages == {"c", "cpp", "python"}

\* Keys every object literal inherits from Object.prototype (one of them).
PrototypeKeys == {"constructor"}

\* Language tags explored: the catalogue and tags outside it.
LanguageTags == Languages \cup {"java"} \cup PrototypeKeys

\* config.LANGUAGES[language]: the entry of the catalogue, a member of
\* Object.prototype (a function, which is truthy and has no fileName), or
\* undefined.
LangConfig(tag) ==
    IF tag \in Languages THEN "entry"
    ELSE IF tag \in PrototypeKeys THEN "inherited"
    ELSE "undefined"

\* Messages of the exceptions injected into the I/O steps.
Faults == {"ENOSPC"}

\* No exception.
NoError == "none"

\* The directory exists on disk (createWorkDir makes workDir, then workDir/code).
DirExists(d) == d \in {"root", "ready"}

\* The value returned by the catch block, one per input.
IEResult(msg) ==
    [verdict |-> "IE", output |-> "", error |-> <<"Internal Error: ", msg>>,
     exitCode |-> -1]

\* inputs.map(() => IE result); execute() of the container backend returns
\* the single object.
IEResults(n, msg) == [k \in 1..n |-> IEResult(msg)]

\* err.code of an execFile error that is not an exit code (a string such as
\* ENOENT when the docker client cannot be started): any value other than 0
\* and 137.
SpawnErrorCode == -2

\* How execFile("docker", ...) can end: without error (the container exited
\* with 0), or with an error carrying the exit code in err.code (0 stands
\* for an absent code), and err.killed when the submission-level timeout
\* killed the client.
ExecFileOutcomes ==
    {[failed |-> FALSE, code |-> 0, killed |-> FALSE]}
        \cup {[failed |-> TRUE, code |-> c, killed |-> FALSE] :
                 c \in {0, 1, 125, 137, SpawnErrorCode}}
        \cup {[failed |-> TRUE, code |-> 0, killed |-> TRUE]}

\* _runDocker: the try/catch around execFileAsync; killed is kept for the
\* record.
RunDockerResult(o) ==
    LET exitCode == IF o.code # 0 THEN o.code ELSE 1
    IN  IF ~o.failed
        THEN [exitCode |-> 0, oomKilled |-> FALSE, killed |-> FALSE]
        ELSE IF o.killed
        THEN [exitCode |-> 124, oomKilled |-> FALSE, killed |-> TRUE]
        ELSE [exitCode |-> exitCode, oomKilled |-> exitCode = 137,
              killed |-> FALSE]

\* What _runDocker can resolve with.
DockerResults == {RunDockerResult(o) : o \in ExecFileOutcomes}

\* meta.txt has no verdict line.
NoVerdict == "none"

\* Variant: the exit of the sandbox is looked at before the meta record.
ContainerVerdictExitFirst(metaVerdict, dockerResult) ==
    IF dockerResult.oomKilled THEN "MLE"
    ELSE IF dockerResult.exitCode = 137 THEN "MLE"
    ELSE IF dockerResult.exitCode # 0 THEN "RE"
    ELSE IF metaVerdict # NoVerdict THEN metaVerdict
    ELSE "IE"

\* Verdict of the container backend from the parsed meta and the docker
\* result.
ContainerVerdict(metaVerdict, dockerResult) ==
    IF metaVerdict # NoVerdict THEN metaVerdict
    ELSE IF dockerResult.oomKilled THEN "MLE"
    ELSE IF dockerResult.exitCode = 137 THEN "MLE"
    ELSE IF dockerResult.exitCode # 0 THEN "RE"
    ELSE "IE"

\* The object execute() of the container backend builds after reading the
\* result files.
ContainerResult(metaVerdict, dockerResult) ==
    [verdict |-> ContainerVerdict(metaVerdict, dockerResult),
     output |-> "stdout", error |-> <<"", "stderr">>,
     exitCode |-> dockerResult.exitCode]

\* What _runProcess resolves with for a test case: exit codes, a child killed
\* by the manual timer, by spawn's own timeout or by a crash signal, and a
\* spawn error.
ChildResults ==
    {[exitCode |-> 0, signal |-> "none", timedOut |-> FALSE],
     [exitCode |-> 1, signal |-> "none", timedOut |-> FALSE],
     [exitCode |-> 137, signal |-> "none", timedOut |-> FALSE],
     [exitCode |-> 124, signal |-> "SIGKILL", timedOut |-> TRUE],
     [exitCode |-> -1, signal |-> "SIGTERM", timedOut |-> FALSE],
     [exitCode |-> -1, signal |-> "SIGSEGV", timedOut |-> FALSE]}

\* Verdict of _runTestCase.
RunTestCaseVerdict(result) ==
    IF result.timedOut THEN "TLE"
    ELSE IF result.exitCode = 137 THEN "MLE"
    ELSE IF result.exitCode = 139 \/ result.signal = "SIGSEGV" THEN "RE"
    ELSE IF result.exitCode = 136 \/ result.signal = "SIGFPE" THEN "RE"
    ELSE IF result.exitCode = 134 \/ result.signal = "SIGABRT" THEN "RE"
    ELSE IF result.exitCode # 0 THEN "RE"
    ELSE "OK"

\* The object _runTestCase returns.
ProcessResult(result) ==
    [verdict |-> RunTestCaseVerdict(result), output |-> "stdout",
     error |-> <<"", "stderr">>, exitCode |-> result.exitCode]

\* The CE objects returned when _compile reports an error.
CEResults(n) ==
    [k \in 1..n |-> [verdict |-> "CE", output |-> "",
                     error |-> <<"", "compiler output">>, exitCode |-> 1]]

\* ProcessExecutor.execute: results[0] of the batch of one input.
ProcessExecuteReturn(results) == results[1]

\* createWorkDir() is awaited before the try block: its exception rejects
\* the promise of execute()/batchExecute().
ThrowFromCreate(msg) ==
    /\ xpc' = "threw"
    /\ xerr' = msg
    /\ UNCHANGED xres

\* Variant: the catch block returns a single IE result.
CaughtOne(msg) ==
    /\ xpc' = "cleanup"
    /\ xerr' = msg
    /\ xres' = <<IEResult(msg)>>

\* catch (err): the call will return IE results after the finally block.
Caught(msg) ==
    /\ xpc' = "cleanup"
    /\ xerr' = msg
    /\ xres' = IEResults(xn, msg)

\* execute()/batchExecute() is called: language check and clamping, up to
\* the first await (inside createWorkDir).
ExecuteCall ==
    /\ xpc = "call"
    /\ IF LangConfig(xlang) = "undefined"
       THEN /\ xpc' = "threw"
            /\ xerr' = "Unsupported language"
       ELSE /\ xpc' = "mkdirRoot"
            /\ UNCHANGED xerr
    /\ UNCHANGED <<backend, xlang, xn, workDir, xres, xdocker, xmeta, xcase,
                   rmFailed, qvars, status, svars, jvars, evars>>

\* createWorkDir: await ensureDir(workDir)
MkdirWorkDir ==
    /\ xpc = "mkdirRoot"
    /\ \E ok \in BOOLEAN :
           IF ok
           THEN /\ workDir' = "root"
                /\ xpc' = "mkdirCode"
                /\ UNCHANGED <<xerr, xres>>
           ELSE /\ ThrowFromCreate("ENOSPC")
                /\ UNCHANGED workDir
    /\ UNCHANGED <<backend, xlang, xn, xdocker, xmeta, xcase, rmFailed,
                   qvars, status, svars, jvars, evars>>

\* createWorkDir: await ensureDir(path.join(workDir, "code"))
MkdirCodeDir ==
    /\ xpc = "mkdirCode"
    /\ \E ok \in BOOLEAN :
           IF ok
           THEN /\ workDir' = "ready"
                /\ xpc' = "write"
                /\ UNCHANGED <<xerr, xres>>
           ELSE /\ ThrowFromCreate("ENOSPC")
                /\ UNCHANGED workDir
    /\ UNCHANGED <<backend, xlang, xn, xdocker, xmeta, xcase, rmFailed,
                   qvars, status, svars, jvars, evars>>

\* try: the source file (and, in the container backend, the input and the
\* empty result files) are written.  path.join(codeDir, langConfig.fileName)
\* throws a TypeError when fileName is undefined.
WriteFiles ==
    /\ xpc = "write"
    /\ \E ok \in BOOLEAN :
           IF LangConfig(xlang) # "entry"
           THEN Caught("ERR_INVALID_ARG_TYPE")
           ELSE IF ok
           THEN /\ xpc' = IF backend = "container" THEN "chmod" ELSE "compile"
                /\ UNCHANGED <<xres, xerr>>
           ELSE Caught("ENOSPC")
    /\ UNCHANGED <<backend, xlang, xn, workDir, xdocker, xmeta, xcase,
                   rmFailed, qvars, status, svars, jvars, evars>>

\* container backend: await exec(`chmod -R 777 ${workDir}`)
Chmod ==
    /\ xpc = "chmod"
    /\ \E ok \in BOOLEAN :
           IF ok
           THEN /\ xpc' = "docker"
                /\ UNCHANGED <<xres, xerr>>
           ELSE Caught("chmod failed")
    /\ UNCHANGED <<backend, xlang, xn, workDir, xdocker, xmeta, xcase,
                   rmFailed, qvars, status, svars, jvars, evars>>

\* container backend: await this._runDocker(...) resolves (it catches every
\* error of execFile); the runner has left a verdict in meta.txt or not.
RunDocker ==
    /\ xpc = "docker"
    /\ \E d \in DockerResults : \E m \in RunVerdicts \cup {NoVerdict} :
           /\ xdocker' = d
           /\ xmeta' = m
    /\ xpc' = "read"
    /\ UNCHANGED <<backend, xlang, xn, workDir, xerr, xres, xcase, rmFailed,
                   qvars, status, svars, jvars, evars>>

\* container backend: the three readFile() calls (which never throw), the
\* parse, the verdict and the return statement
ReadResults ==
    /\ xpc = "read"
    /\ xres' = <<ContainerResult(xmeta, xdocker)>>
    /\ xpc' = "cleanup"
    /\ UNCHANGED <<backend, xlang, xn, workDir, xerr, xdocker, xmeta, xcase,
                   rmFailed, qvars, status, svars, jvars, evars>>

\* process backend: await this._compile(...): success, a compilation error
\* (CE for every input), or spawn() throwing
Compile ==
    /\ xpc = "compile"
    /\ \E outcome \in {"ok", "error", "throws"} :
           IF outcome = "ok"
           THEN /\ xpc' = IF xn > 0 THEN "case" ELSE "cleanup"
                /\ xres' = <<>>
                /\ UNCHANGED xerr
           ELSE IF outcome = "error"
           THEN /\ xpc' = "cleanup"
                /\ xres' = CEResults(xn)
                /\ UNCHANGED xerr
           ELSE Caught("spawn failed")
    /\ UNCHANGED <<backend, xlang, xn, workDir, xdocker, xmeta, xcase,
                   rmFailed, qvars, status, svars, jvars, evars>>

\* process backend: one iteration of the loop over the inputs:
\* await this._runTestCase(...), results.push(...), or spawn() throwing
RunTestCase ==
    /\ xpc = "case"
    /\ \E throws \in BOOLEAN : \E result \in ChildResults :
           IF throws
           THEN /\ Caught("spawn failed")
                /\ UNCHANGED xcase
           ELSE /\ xres' = Append(xres, ProcessResult(result))
                /\ xcase' = xcase + 1
                /\ xpc' = IF xcase + 1 < xn THEN "case" ELSE "cleanup"
                /\ UNCHANGED xerr
    /\ UNCHANGED <<backend, xlang, xn, workDir, xdocker, xmeta, rmFailed,
                   qvars, status, svars, jvars, evars>>

\* finally: await cleanup(workDir): fs.rm either removes the directory or
\* fails, and the failure is swallowed; then the call returns.
Cleanup ==
    /\ xpc = "cleanup"
    /\ \E ok \in BOOLEAN :
           IF ok
           THEN /\ workDir' = "removed"
                /\ UNCHANGED rmFailed
           ELSE /\ rmFailed' = TRUE
                /\ UNCHANGED workDir
    /\ xpc' = "returned"
    /\ UNCHANGED <<backend, xlang, xn, xerr, xres, xdocker, xmeta, xcase,
                   qvars, status, svars, jvars, evars>>

\* No call of the executor.
NoExec ==
    /\ backend = "container"
    /\ xlang = "cpp"
    /\ xn = 1
    /\ xpc = "idle"
    /\ workDir = "none"
    /\ xerr = NoError
    /\ xres = <<>>
    /\ xdocker = [exitCode |-> 0, oomKilled |-> FALSE, killed |-> FALSE]
    /\ xmeta = NoVerdict
    /\ xcase = 0
    /\ rmFailed = FALSE

\* await executorService.execute(...) returns a result
JudgeExecuteReturns ==
    /\ js.pc = "exec"
    /\ \E result \in ExecResults : js' = JudgeIter(js, jtc, result)
    /\ UNCHANGED <<jtc, qvars, status, svars, xvars, evars>>

\* await executorService.execute(...) rejects: judge() rejects
JudgeExecuteRejects ==
    /\ js.pc = "exec"
    /\ js' = [js EXCEPT !.pc = "rejected"]
    /\ UNCHANGED <<jtc, qvars, status, svars, xvars, evars>>
\* ------------------------------------------- _normalize on its own
\* The characters the strings under test are made of.
NormChars == {"a", " ", "\t", "\r", "\n"}

RECURSIVE StringsOfLen(_)
StringsOfLen(n) ==
    IF n = 0 THEN {<<>>}
    ELSE {<<c>> \o s : c \in NormChars, s \in StringsOfLen(n - 1)}

\* Every string of at most MaxStrLen characters, and the absent string.
NormInputs == UNION {StringsOfLen(n) : n \in 0..MaxStrLen} \cup {Absent}

\* No call of _normalize under test.
NoNorm ==
    /\ nstr = <<>>
    /\ nout = <<>>

\* this._normalize(...) applied to the string under test, then to its own
\* result.
NormalizeCall ==
    /\ Len(nout) < 2
    /\ nout' = Append(nout, Normalize(IF nout = <<>> THEN nstr
                                                     ELSE nout[Len(nout)]))
    /\ UNCHANGED <<nstr, rvars, hreq, wvars, qvars, status, svars, jvars,
                   xvars>>

\* --------------------------- sandbox runner scripts (run.sh, three copies)
\* "single": sandbox/run.sh; "monitor": the single-case runner that polls
\* /proc for memory; "batch": the batch-mode runner.
RunnerKinds == {"single", "monitor", "batch"}

\* The values $? can take.
ExitStatuses == 0..255

\* The exit statuses of the child explored by whole runs of a runner: the
\* statuses the tables name and a few others.
ChildExits == {0, 1, 2, 124, 134, 136, 137, 139, 143, 255}

\* No meta record written for a case.
NoMeta == [verdict |-> "", time |-> "", memory |-> "", exitCode |-> -1]

\* write_meta: the four lines of a meta record.  Time and memory are "0"
\* when the script writes the literal 0, "measured" when it writes what it
\* measured around the run.
WriteMeta(verdict, time_ms, memory, exit_code) ==
    [verdict |-> verdict, time |-> time_ms, memory |-> memory,
     exitCode |-> exit_code]

\* sandbox/run.sh, PHASE 4: the verdict and the line appended to stderr.
SingleRow(s) ==
    IF s = 124 THEN [verdict |-> "TLE", message |-> ""]
    ELSE IF s = 137 THEN [verdict |-> "MLE", message |-> ""]
    ELSE IF s = 139
         THEN [verdict |-> "RE", message |-> "Segmentation fault (SIGSEGV)"]
    ELSE IF s = 136
         THEN [verdict |-> "RE",
               message |-> "Floating point exception (SIGFPE)"]
    ELSE IF s = 134 THEN [verdict |-> "RE", message |-> "Aborted (SIGABRT)"]
    ELSE IF s # 0 THEN [verdict |-> "RE", message |-> ""]
    ELSE [verdict |-> "OK", message |-> ""]

\* The /proc-polling single-case runner, PHASE 4.
MonitorRow(s) ==
    IF s = 124 THEN [verdict |-> "TLE", message |-> ""]
    ELSE IF s = 137 THEN [verdict |-> "MLE", message |-> ""]
    ELSE IF s = 139
         THEN [verdict |-> "RE", message |-> "Segmentation fault (SIGSEGV)"]
    ELSE IF s = 136
         THEN [verdict |-> "RE",
               message |-> "Floating point exception (SIGFPE)"]
    ELSE IF s = 134 THEN [verdict |-> "RE", message |-> "Aborted (SIGABRT)"]
    ELSE IF s # 0 THEN [verdict |-> "RE", message |-> ""]
    ELSE [verdict |-> "OK", message |-> ""]

\* Variant: the batch runner tests "non-zero" before the signal statuses.
BatchRowNonZeroFirst(s) ==
    IF s = 124 THEN [verdict |-> "TLE", message |-> ""]
    ELSE IF s = 137 THEN [verdict |-> "MLE", message |-> ""]
    ELSE IF s # 0 THEN [verdict |-> "RE", message |-> ""]
    ELSE [verdict |-> "OK", message |-> ""]

\* The batch runner, "Determine verdict" inside the loop.
BatchRow(s) ==
    IF s = 124 THEN [verdict |-> "TLE", message |-> ""]
    ELSE IF s = 137 THEN [verdict |-> "MLE", message |-> ""]
    ELSE IF s = 139
         THEN [verdict |-> "RE", message |-> "Segmentation fault (SIGSEGV)"]
    ELSE IF s = 136
         THEN [verdict |-> "RE",
               message |-> "Floating point exception (SIGFPE)"]
    ELSE IF s = 134 THEN [verdict |-> "RE", message |-> "Aborted (SIGABRT)"]
    ELSE IF s # 0 THEN [verdict |-> "RE", message |-> ""]
    ELSE [verdict |-> "OK", message |-> ""]

\* The table of the script that runs.
RunnerRow(script, s) ==
    IF script = "single" THEN SingleRow(s)
    ELSE IF script = "monitor" THEN MonitorRow(s)
    ELSE BatchRow(s)

\* The languages of the case statement of the scripts.
RunnerLanguages == {"c", "cpp", "python"}

\* No runner script under observation.
NoRunner ==
    /\ runner = "single"
    /\ rlang = "cpp"
    /\ rnum = 1
    /\ rpc = "idle"
    /\ rcase = 0
    /\ rexit = 0
    /\ rmeta = <<NoMeta>>
    /\ rerr = <<"">>
    /\ rcause = <<"none">>

\* Variant: a failed compilation records CE for the first case only.
RunnerCompileFirstOnly ==
    /\ rpc = "compile"
    /\ \E compiled \in BOOLEAN :
         IF rlang \notin RunnerLanguages
         THEN /\ rmeta' = [k \in 1..rnum |->
                             WriteMeta("IE", "0", "0", 1)]
              /\ rerr' = [k \in 1..rnum |-> "Unsupported language"]
              /\ rpc' = "exited"
              /\ UNCHANGED rcase
         ELSE IF ~compiled
         THEN /\ rmeta' = [rmeta EXCEPT ![1] = WriteMeta("CE", "0", "0", 1)]
              /\ rerr' = [rerr EXCEPT ![1] = "compiler output"]
              /\ rpc' = "exited"
              /\ UNCHANGED rcase
         ELSE /\ rpc' = "run"
              /\ rcase' = 1
              /\ UNCHANGED <<rmeta, rerr>>
    /\ UNCHANGED <<runner, rlang, rnum, rexit, rcause, nvars, hreq, wvars,
                   qvars, status, svars, jvars, xvars>>

\* PHASE 1: the case statement on $LANG and the test of compile_result.  An
\* unknown language writes IE records and exits; a failed compilation (or
\* syntax check, or its timeout) writes CE records and exits; the exit code
\* recorded is compile_result in the single-case runners and 1 in the batch
\* runner (1 stands for both).
RunnerCompile ==
    /\ rpc = "compile"
    /\ \E compiled \in BOOLEAN :
         IF rlang \notin RunnerLanguages
         THEN /\ rmeta' = [k \in 1..rnum |->
                             WriteMeta("IE", "0", "0", 1)]
              /\ rerr' = [k \in 1..rnum |-> "Unsupported language"]
              /\ rpc' = "exited"
              /\ UNCHANGED rcase
         ELSE IF ~compiled
         THEN /\ rmeta' = [k \in 1..rnum |->
                             WriteMeta("CE", "0", "0", 1)]
              /\ rerr' = [k \in 1..rnum |-> "compiler output"]
              /\ rpc' = "exited"
              /\ UNCHANGED rcase
         ELSE /\ rpc' = "run"
              /\ rcase' = 1
              /\ UNCHANGED <<rmeta, rerr>>
    /\ UNCHANGED <<runner, rlang, rnum, rexit, rcause, nvars, hreq, wvars,
                   qvars, status, svars, jvars, xvars>>

\* PHASE 2: timeout "$TIME_LIMIT" sh -c "..."; RUN_EXIT=$?.  The child ends
\* by itself within the limits with some status (128 + n when signal n
\* killed it), or timeout(1) stops it when the time limit elapses and
\* returns 124, or the memory cgroup kills it and the status is 137.
RunnerRunCase ==
    /\ rpc = "run"
    /\ \E cause \in {"exit", "timeout", "oom"} :
         /\ rcause' = [rcause EXCEPT ![rcase] = cause]
         /\ IF cause = "timeout" THEN rexit' = 124
            ELSE IF cause = "oom" THEN rexit' = 137
            ELSE rexit' \in ChildExits
    /\ rpc' = "ran"
    /\ UNCHANGED <<runner, rlang, rnum, rcase, rmeta, rerr, nvars, hreq,
                   wvars, qvars, status, svars, jvars, xvars>>

\* Variant: every verdict is recorded in the meta file of the first case.
DetermineVerdictFirstFile ==
    /\ rpc = "ran"
    /\ LET row == RunnerRow(runner, rexit)
       IN  /\ rmeta' = [rmeta EXCEPT ![1] =
                          WriteMeta(row.verdict, "measured", "measured", rexit)]
           /\ rerr' = [rerr EXCEPT ![1] = row.message]
    /\ IF runner = "batch" /\ rcase < rnum
       THEN rpc' = "run" /\ rcase' = rcase + 1
       ELSE rpc' = "exited" /\ UNCHANGED rcase
    /\ UNCHANGED <<runner, rlang, rnum, rexit, rcause, nvars, hreq, wvars,
                   qvars, status, svars, jvars, xvars>>

\* PHASE 4 and 5: the verdict from RUN_EXIT, the line appended to stderr,
\* write_meta; the batch runner then goes on with the next case.
DetermineVerdict ==
    /\ rpc = "ran"
    /\ LET row == RunnerRow(runner, rexit)
       IN  /\ rmeta' = [rmeta EXCEPT ![rcase] =
                          WriteMeta(row.verdict, "measured", "measured", rexit)]
           /\ rerr' = [rerr EXCEPT ![rcase] = row.message]
    /\ IF runner = "batch" /\ rcase < rnum
       THEN rpc' = "run" /\ rcase' = rcase + 1
       ELSE rpc' = "exited" /\ UNCHANGED rcase
    /\ UNCHANGED <<runner, rlang, rnum, rexit, rcause, nvars, hreq, wvars,
                   qvars, status, svars, jvars, xvars>>

\* ---------------------------------- one request through the validation
\* Bodies of n test cases explored: the valid one and those that differ
\* from it in one field.
GateBodies(n) ==
    {ValidBody(n)}
        \cup {[ValidBody(n) EXCEPT !.language = l] : l \in {"java", "absent"}}
        \cup {[ValidBody(n) EXCEPT !.code = c] :
                 c \in {Missing, 0, MaxCodeSize, MaxCodeSize + 1}}
        \cup {[ValidBody(n) EXCEPT !.timeLimit = x] :
                 x \in {0, 1, MaxTimeLimit, MaxTimeLimit + 1}}
        \cup {[ValidBody(n) EXCEPT !.memoryLimit = x] :
                 x \in {MinMemoryLimit - 1, MinMemoryLimit, MaxMemoryLimit,
                        MaxMemoryLimit + 1}}

\* Sequences of at most n elements of S.
SeqsUpTo(S, n) == UNION {[1..m -> S] : m \in 0..n}

\* The requests explored.  Test-case counts outside 1..50 are sent to /judge
\* only: judge() on an empty or absent testCases array never calls the
\* executor.
GateRequests ==
    {[route |-> "execute", bodies |-> <<b>>] :
        b \in GateBodies(Missing) \cup {ValidBody(1)}}
      \cup {[route |-> "judge", bodies |-> <<b>>] :
              b \in UNION {GateBodies(n) : n \in 1..ServerCases}
                      \cup {ValidBody(Missing), ValidBody(0),
                            ValidBody(MaxTestCases + 1)}}
      \cup {[route |-> "batch", bodies |-> bs] :
              bs \in SeqsUpTo(GateBodies(1), MaxSubs)}

\* No request is followed.
NoGate == hreq = [route |-> "none", bodies |-> <<>>]

\* The request arrives at its route.
GateExecute ==
    /\ hreq.route = "execute"
    /\ arrived = 0
    /\ ExecuteRoute(hreq.bodies[1])

GateJudge ==
    /\ hreq.route = "judge"
    /\ arrived = 0
    /\ JudgeRoute(hreq.bodies[1])

GateBatchJudge ==
    /\ hreq.route = "batch"
    /\ arrived = 0
    /\ BatchRoute(hreq.bodies)

\* The submission task t runs: the tasks of a request are enqueued in the
\* order of its submissions.
TaskBody(t) == hreq.bodies[t]

\* execute() returns a result only for a language of the catalogue; for any
\* other it throws.
GateExecuteReturns ==
    \E t \in Tasks : \E result \in ServerExecResults :
        /\ t <= enqueued
        /\ TaskBody(t).language \in Languages
        /\ ExecuteReturns(t, result)


\* --------------------------------------------- the server process (server.js)
\* The process is up.
Up == exited = FALSE

\* process.on("SIGTERM" | "SIGINT", () => { logger.info(...); process.exit(0) })
\* The handler runs as a turn of the event loop of its own and ends the
\* process at once: the queue is not touched.
Shutdown ==
    /\ ~exited
    /\ exited' = TRUE
    /\ UNCHANGED <<qvars, status, svars, jvars, xvars, nvars, rvars, hreq,
                   pvars, tvars, lvars,
      cvars,
      mvars>>

\* A turn of the queue in a process that is up.
QueueTurn ==
    /\ ~exited
    /\ \/ EnqueueAsync
       \/ EnqueueThrowing
       \/ TaskResolves
       \/ TaskRejects
       \/ Wake

\* ------------------------------------ the process executor: _runProcess
\* Largest number of _runProcess calls of one batchExecute() explored.
MaxProcCases == 2

\* Signal numbers (signal(7)).
SigNum(s) ==
    CASE s = "SIGABRT" -> 6
      [] s = "SIGFPE" -> 8
      [] s = "SIGKILL" -> 9
      [] s = "SIGSEGV" -> 11
      [] s = "SIGTERM" -> 15

\* Exit codes explored: success, failure, and the codes the verdict tables
\* single out.
ProcExits == {0, 1, 124, 137, 139}

\* What the program under test does on one input: it ends by itself with an
\* exit code, it is ended by a signal it raises itself (or the kernel sends
\* it), or it runs until something stops it, with the default reaction to
\* SIGTERM or ignoring SIGTERM.
Programs ==
    {[does |-> "exit", code |-> c, signal |-> "none"] : c \in ProcExits}
      \cup {[does |-> "signal", code |-> -1, signal |-> s] :
               s \in {"SIGABRT", "SIGFPE", "SIGKILL", "SIGSEGV"}}
      \cup {[does |-> d, code |-> -1, signal |-> "none"] :
               d \in {"loop", "loopIgnoringTerm"}}

\* The arguments of the 'close' event: code is null (-1 here) when a signal
\* ended the child; by tells what ended it (the program itself, the kill of
\* spawn's timeout or the kill of the timer of _runProcess).
NoClose == [code |-> -1, signal |-> "none", by |-> "none"]

\* The promise of _runProcess is pending.
NotResolved == [exitCode |-> 0, signal |-> "none", timedOut |-> FALSE,
                settled |-> FALSE]

\* No _runProcess call under observation.
NoProc ==
    /\ pnum = 0
    /\ pcur = 0
    /\ prog = <<>>
    /\ proc = <<>>
    /\ spawnTimer = <<>>
    /\ timer = <<>>
    /\ timedOut = <<>>
    /\ endedBy = <<>>
    /\ resolved = <<>>
    /\ pverdict = <<>>

\* The other variables of the model.
NotProc ==
    <<qvars, status, svars, jvars, xvars, nvars, rvars, hreq, ovars, tvars,
      lvars,
      cvars,
      mvars>>

\* Variant: the next child is spawned without awaiting the one before.
SpawnChildNoAwait ==
    /\ pcur < pnum
    /\ pcur' = pcur + 1
    /\ \E started \in BOOLEAN :
         proc' = [proc EXCEPT ![pcur + 1] = IF started THEN "running"
                                                       ELSE "failed"]
    /\ spawnTimer' = [spawnTimer EXCEPT ![pcur + 1] = "armed"]
    /\ timer' = [timer EXCEPT ![pcur + 1] = "armed"]
    /\ UNCHANGED <<pnum, prog, timedOut, endedBy, resolved, pverdict,
                   NotProc>>

\* _runTestCase calls _runProcess for the next input (the previous call was
\* awaited): spawn(cmd, args, {stdio, timeout}) starts the child and arms
\* the timer of its timeout option, then setTimeout arms the timer of
\* _runProcess with the same delay.  A command that cannot be started gives
\* an 'error' event later.
SpawnChild ==
    /\ pcur < pnum
    /\ pcur > 0 => resolved[pcur].settled
    /\ pcur' = pcur + 1
    /\ \E started \in BOOLEAN :
         proc' = [proc EXCEPT ![pcur + 1] = IF started THEN "running"
                                                       ELSE "failed"]
    /\ spawnTimer' = [spawnTimer EXCEPT ![pcur + 1] = "armed"]
    /\ timer' = [timer EXCEPT ![pcur + 1] = "armed"]
    /\ UNCHANGED <<pnum, prog, timedOut, endedBy, resolved, pverdict,
                   NotProc>>

\* The child ends by itself, within the time limit or not.
ChildEnds ==
    \E k \in 1..pnum :
        /\ proc[k] = "running"
        /\ prog[k].does \in {"exit", "signal"}
        /\ proc' = [proc EXCEPT ![k] = "ended"]
        /\ endedBy' = [endedBy EXCEPT ![k] = [code |-> prog[k].code,
                                              signal |-> prog[k].signal,
                                              by |-> "self"]]
        /\ UNCHANGED <<pnum, pcur, prog, spawnTimer, timer, timedOut,
                       resolved, pverdict, NotProc>>

\* The timer of spawn's timeout option fires: child.kill(killSignal), and
\* killSignal is SIGTERM by default.
SpawnTimeoutKill ==
    \E k \in 1..pnum :
        /\ spawnTimer[k] = "armed"
        /\ spawnTimer' = [spawnTimer EXCEPT ![k] = "fired"]
        /\ IF proc[k] = "running" /\ prog[k].does # "loopIgnoringTerm"
           THEN /\ proc' = [proc EXCEPT ![k] = "ended"]
                /\ endedBy' = [endedBy EXCEPT ![k] = [code |-> -1,
                                                      signal |-> "SIGTERM",
                                                      by |-> "spawn"]]
           ELSE UNCHANGED <<proc, endedBy>>
        /\ UNCHANGED <<pnum, pcur, prog, timer, timedOut, resolved,
                       pverdict, NotProc>>

\* setTimeout(() => { timedOut = true; proc.kill("SIGKILL") }, timeout)
TimerFires(k) ==
    /\ timer[k] = "armed"
    /\ timer' = [timer EXCEPT ![k] = "fired"]
    /\ timedOut' = [timedOut EXCEPT ![k] = TRUE]
    /\ IF proc[k] = "running"
       THEN /\ proc' = [proc EXCEPT ![k] = "ended"]
            /\ endedBy' = [endedBy EXCEPT ![k] = [code |-> -1,
                                                  signal |-> "SIGKILL",
                                                  by |-> "timer"]]
       ELSE UNCHANGED <<proc, endedBy>>
    /\ UNCHANGED <<pnum, pcur, prog, spawnTimer, resolved, pverdict,
                   NotProc>>

ManualTimeoutKill == \E k \in 1..pnum : TimerFires(k)

\* clearTimeout(timer): a timer that has fired stays fired.
Cleared(t) == IF t = "armed" THEN "cleared" ELSE t

\* proc.on("close", (code, signal) => { clearTimeout(timer); resolve({
\* exitCode: code ?? (timedOut ? 124 : -1), signal, ..., timedOut }) }), and
\* the verdict _runTestCase derives from the resolved value.  spawn clears
\* its own timer on the 'exit' event.
CloseResult(k) ==
    /\ timer' = [timer EXCEPT ![k] = Cleared(@)]
    /\ spawnTimer' = [spawnTimer EXCEPT ![k] = Cleared(@)]
    /\ LET r == [exitCode |-> IF endedBy[k].code # -1 THEN endedBy[k].code
                              ELSE IF timedOut[k] THEN 124 ELSE -1,
                 signal |-> endedBy[k].signal,
                 timedOut |-> timedOut[k],
                 settled |-> TRUE]
       IN  /\ resolved' = [resolved EXCEPT ![k] = r]
           /\ pverdict' = [pverdict EXCEPT ![k] = RunTestCaseVerdict(r)]

\* The 'close' event of the child of the call in progress.
Close ==
    /\ pcur > 0
    /\ proc[pcur] = "ended"
    /\ ~resolved[pcur].settled
    /\ CloseResult(pcur)
    /\ proc' = [proc EXCEPT ![pcur] = "closed"]
    /\ UNCHANGED <<pnum, pcur, prog, timedOut, endedBy, NotProc>>

\* proc.on("error", (err) => { clearTimeout(timer); resolve({ exitCode: -1,
\* ..., timedOut: false }) })
SpawnError ==
    /\ pcur > 0
    /\ proc[pcur] = "failed"
    /\ ~resolved[pcur].settled
    /\ timer' = [timer EXCEPT ![pcur] = Cleared(@)]
    /\ spawnTimer' = [spawnTimer EXCEPT ![pcur] = Cleared(@)]
    /\ LET r == [exitCode |-> -1, signal |-> "none", timedOut |-> FALSE,
                 settled |-> TRUE]
       IN  /\ resolved' = [resolved EXCEPT ![pcur] = r]
           /\ pverdict' = [pverdict EXCEPT ![pcur] = RunTestCaseVerdict(r)]
    /\ UNCHANGED <<pnum, pcur, prog, proc, timedOut, endedBy, NotProc>>

\* ------------------------------------- truncation of the program's output
\* maxLen of the _truncate call on the output, in both backends.
MaxOutputLen == 10000

\* String(n) for n >= 0: the decimal digits.
RECURSIVE Digits(_)
Digits(n) ==
    LET d == <<"0", "1", "2", "3", "4", "5", "6", "7", "8", "9">>[(n % 10) + 1]
    IN  IF n < 10 THEN <<d>> ELSE Digits(n \div 10) \o <<d>>

\* "\n... (truncated, "
MarkerHead ==
    <<"\n", ".", ".", ".", " ", "(", "t", "r", "u", "n", "c", "a", "t",
      "e", "d", ",", " ">>

\* " total chars)"
MarkerTail ==
    <<" ", "t", "o", "t", "a", "l", " ", "c", "h", "a", "r", "s", ")">>

\* "\n... (truncated)"
ProcessMarker ==
    <<"\n", ".", ".", ".", " ", "(", "t", "r", "u", "n", "c", "a", "t",
      "e", "d", ")">>

\* ExecutorService._truncate(str, maxLen)
ContainerTruncate(str, maxLen) ==
    IF str = <<>> THEN <<>>
    ELSE IF Len(str) <= maxLen THEN str
    ELSE SubSeq(str, 1, maxLen) \o MarkerHead \o Digits(Len(str))
             \o MarkerTail

\* ProcessExecutor._truncate(str, maxLen)
ProcessTruncate(str, maxLen) ==
    IF str = <<>> THEN <<>>
    ELSE IF Len(str) <= maxLen THEN str
    ELSE SubSeq(str, 1, maxLen) \o ProcessMarker

\* n times the character a.
Filled(n) == [k \in 1..n |-> "a"]

\* Lengths around the limit, and short ones.
OutputLens == {0, 1, 2, MaxOutputLen - 1, MaxOutputLen, MaxOutputLen + 1}

\* What the program prints: lines of a's of those lengths, with and without
\* the final line feed.
ProgramOutputs ==
    {Filled(n) : n \in OutputLens}
        \cup {Filled(n) \o <<"\n">> : n \in OutputLens \ {0}}

\* The expected outputs: the same strings, and what the two _truncate leave
\* of the longest one.
ExpectedOutputs ==
    (ProgramOutputs \ {<<>>})
        \cup {ContainerTruncate(Filled(MaxOutputLen + 1), MaxOutputLen),
              ProcessTruncate(Filled(MaxOutputLen + 1), MaxOutputLen)}

\* No output is followed.
NoTrunc ==
    /\ tback = "container"
    /\ tout = <<>>
    /\ texp = <<>>
    /\ tres = <<>>
    /\ tverdict = "none"
    /\ tpc = "idle"

\* The other variables of the model.
NotTrunc == <<qvars, status, svars, jvars, xvars, nvars, rvars, hreq, ovars,
              pvars, lvars,
      cvars,
      mvars>>

\* The run ended with verdict OK: execute() returns the output it read from
\* output.txt (or collected from the child's stdout) through _truncate.
ExecuteTruncates ==
    /\ tpc = "ran"
    /\ tres' = IF tback = "container"
               THEN ContainerTruncate(tout, MaxOutputLen)
               ELSE ProcessTruncate(tout, MaxOutputLen)
    /\ tpc' = "executed"
    /\ UNCHANGED <<tback, tout, texp, tverdict, NotTrunc>>

\* judge(): this._getVerdict(result, tc.expectedOutput)
JudgeCompares ==
    /\ tpc = "executed"
    /\ tverdict' = GetVerdict([verdict |-> "OK", output |-> tres], texp)
    /\ tpc' = "judged"
    /\ UNCHANGED <<tback, tout, texp, tres, NotTrunc>>

\* --------------------------------- the work directory and what touches it
\* Inputs of one batchExecute() call of the process backend.
MaxLifeCases == 2

\* Reads and writes of the directory by the sandbox or the children during
\* one call.
MaxSandboxIO == 2

\* The processes started for one call: the container (container backend), or
\* the compiler followed by one child per input (process backend).
Boxes == 1..(IF lback = "container" THEN 1 ELSE ln + 1)

Event(e, k) == [ev |-> e, k |-> k]

\* The positions of the log at which e happened.
At(e) == {i \in 1..Len(llog) : llog[i].ev = e}

IOCount == Cardinality(At("io"))

\* The other variables of the model.
NotLife == <<qvars, status, svars, jvars, xvars, nvars, rvars, hreq, ovars,
             pvars, tvars,
      cvars,
      mvars>>

\* catch (err) { ... } finally: the call goes on to cleanup().
LifeCaught == lpc' = "cleanup"

\* const workDir = await createWorkDir(): mkdir -p of the directory and of
\* code/, or a rejection, which is outside the try block.
CreateWorkDir ==
    /\ lpc = "call"
    /\ \E ok \in BOOLEAN :
           IF ok
           THEN /\ ldir' = "present"
                /\ llog' = Append(llog, Event("mkdir", 0))
                /\ lpc' = "created"
           ELSE /\ lpc' = "threw"
                /\ UNCHANGED <<ldir, llog>>
    /\ UNCHANGED <<lback, ln, lbox, lcur, lkilled, NotLife>>

\* The writeFile() calls (source, input.txt and the empty result files, then
\* chmod, in the container backend; the source in the process backend), or
\* one of them rejecting.
WriteWorkDir ==
    /\ lpc = "created"
    /\ \E ok \in BOOLEAN :
           IF ok
           THEN /\ llog' = Append(llog, Event("write", 0))
                /\ lpc' = "launch"
           ELSE /\ LifeCaught
                /\ UNCHANGED llog
    /\ UNCHANGED <<lback, ln, ldir, lbox, lcur, lkilled, NotLife>>

\* _runDocker: execFileAsync("docker", ["run", "--rm", ...]) starts the
\* client, which starts the container and stays in the foreground; or the
\* client cannot be started or exits at once, and execFile's error is turned
\* into a result.
DockerRun ==
    /\ lpc = "launch"
    /\ lback = "container"
    /\ \E ok \in BOOLEAN :
           IF ok
           THEN /\ lbox' = [lbox EXCEPT ![1] = "running"]
                /\ llog' = Append(llog, Event("launch", 1))
                /\ lpc' = "wait"
           ELSE /\ lpc' = "read"
                /\ UNCHANGED <<lbox, llog>>
    /\ UNCHANGED <<lback, ln, ldir, lcur, lkilled, NotLife>>

\* The runner or the program in the container, or a child of the process
\* backend, reads or writes a file of the directory.
SandboxIO ==
    /\ IOCount < MaxSandboxIO
    /\ \E k \in Boxes :
           /\ lbox[k] = "running"
           /\ llog' = Append(llog, Event("io", k))
    /\ UNCHANGED <<lback, ln, ldir, lbox, lcur, lpc, lkilled, NotLife>>

\* The container or the child terminates.
SandboxExit ==
    /\ \E k \in Boxes :
           /\ lbox[k] = "running"
           /\ lbox' = [lbox EXCEPT ![k] = "ended"]
           /\ llog' = Append(llog, Event("exit", k))
    /\ UNCHANGED <<lback, ln, ldir, lcur, lpc, lkilled, NotLife>>

\* timeout: (timeLimit + 20) * 1000 of execFile: the client gets SIGTERM and
\* err.killed will be true; execFile calls back at the client's 'close', and
\* the client in the foreground ends with its container.
DockerClientTimeout ==
    /\ lpc = "wait"
    /\ lback = "container"
    /\ ~lkilled
    /\ lkilled' = TRUE
    /\ UNCHANGED <<lback, ln, ldir, lbox, lcur, lpc, llog, NotLife>>

\* Variant: the call goes on as soon as the client was signalled.
DockerReturnsAtTimeout ==
    /\ lpc = "wait"
    /\ lback = "container"
    /\ lbox[1] = "ended" \/ lkilled
    /\ lpc' = "read"
    /\ UNCHANGED <<lback, ln, ldir, lbox, lcur, lkilled, llog, NotLife>>

\* await execFileAsync(...) settles, in the try or in the catch of
\* _runDocker: the client has exited.
DockerReturns ==
    /\ lpc = "wait"
    /\ lback = "container"
    /\ lbox[1] = "ended"
    /\ lpc' = "read"
    /\ UNCHANGED <<lback, ln, ldir, lbox, lcur, lkilled, llog, NotLife>>

\* The three readFile() calls on output.txt, stderr.txt and meta.txt.
ReadWorkDir ==
    /\ lpc = "read"
    /\ llog' = Append(llog, Event("read", 1))
    /\ lpc' = "cleanup"
    /\ UNCHANGED <<lback, ln, ldir, lbox, lcur, lkilled, NotLife>>

\* _runProcess: spawn() of the compiler (child 1) or of the program on input
\* lcur - 1; a child that cannot be started reports 'error' and the call
\* resolves without it; spawn() may also throw.
SpawnProcess ==
    /\ lpc = "launch"
    /\ lback = "process"
    /\ \E outcome \in {"spawned", "error", "throws"} :
           IF outcome = "spawned"
           THEN /\ lbox' = [lbox EXCEPT ![lcur] = "running"]
                /\ llog' = Append(llog, Event("launch", lcur))
                /\ lpc' = "wait"
                /\ UNCHANGED lcur
           ELSE IF outcome = "error"
           THEN /\ llog' = Append(llog, Event("read", lcur))
                /\ lpc' = IF lcur = 1 \/ lcur = ln + 1 THEN "cleanup"
                          ELSE "launch"
                /\ lcur' = lcur + 1
                /\ UNCHANGED lbox
           ELSE /\ LifeCaught
                /\ UNCHANGED <<lbox, llog, lcur>>
    /\ UNCHANGED <<lback, ln, ldir, lkilled, NotLife>>

\* proc.on("close"): the child has ended and its pipes are closed; the
\* promise resolves with what was collected from stdout and stderr. After
\* the compiler: an error ends the call with CE results, otherwise the loop
\* over the inputs starts; after a case: results.push and the next case.
ProcessClose ==
    /\ lpc = "wait"
    /\ lback = "process"
    /\ lbox[lcur] = "ended"
    /\ llog' = Append(llog, Event("read", lcur))
    /\ \E compiled \in BOOLEAN :
           lpc' = IF lcur = 1 /\ ~compiled THEN "cleanup"
                  ELSE IF lcur < ln + 1 THEN "launch"
                  ELSE "cleanup"
    /\ lcur' = lcur + 1
    /\ UNCHANGED <<lback, ln, ldir, lbox, lkilled, NotLife>>

\* finally: await cleanup(workDir): fs.rm removes the directory, or fails
\* and the failure is swallowed; the call returns.
RemoveWorkDir ==
    /\ lpc = "cleanup"
    /\ \E ok \in BOOLEAN :
           IF ok
           THEN /\ ldir' = "removed"
                /\ llog' = Append(llog, Event("rm", 0))
           ELSE UNCHANGED <<ldir, llog>>
    /\ lpc' = "returned"
    /\ UNCHANGED <<lback, ln, lbox, lcur, lkilled, NotLife>>

\* No call is followed.
NoLife ==
    /\ lback = "container"
    /\ ln = 0
    /\ lpc = "idle"
    /\ ldir = "absent"
    /\ lbox = <<>>
    /\ lcur = 0
    /\ lkilled = FALSE
    /\ llog = <<>>

\* ------------------------------------------------ clamping of the limits
\* config.DEFAULT_TIME_LIMIT (default)
DefaultTimeLimit == 5

\* config.DEFAULT_MEMORY_LIMIT (default)
DefaultMemoryLimit == 256

\* x || d: d when x is undefined or 0.
OrDefault(x, d) == IF x = Missing \/ x = 0 THEN d ELSE x

\* Math.min(x || d, hi)
Clamp(x, d, hi) == Min(OrDefault(x, d), hi)

\* The time limits explored: absent, 0, negative, the bounds of the
\* validated range and the values next to them.
TimeLimits ==
    {Missing, 0, -2, 1, DefaultTimeLimit, MaxTimeLimit, MaxTimeLimit + 1,
     MaxTimeLimit * 10}

\* The memory limits explored, likewise.
MemoryLimits ==
    {Missing, 0, -2, 1, MinMemoryLimit - 1, MinMemoryLimit,
     DefaultMemoryLimit, MaxMemoryLimit, MaxMemoryLimit + 1,
     MaxMemoryLimit * 2}

NoLimits == [timeLimit |-> Missing, memoryLimit |-> Missing]

\* No call is followed.
NoClamp ==
    /\ creq = NoLimits
    /\ ceff = NoLimits
    /\ cpc = "idle"

\* execute() / batchExecute(): the two Math.min statements; the values go to
\* _runDocker (--memory, the runner's time limit) or to _runTestCase.
ClampLimits ==
    /\ cpc = "call"
    /\ ceff' = [timeLimit |-> Clamp(creq.timeLimit, DefaultTimeLimit,
                                    MaxTimeLimit),
                memoryLimit |-> Clamp(creq.memoryLimit, DefaultMemoryLimit,
                                      MaxMemoryLimit)]
    /\ cpc' = "clamped"
    /\ UNCHANGED <<creq, qvars, status, svars, jvars, xvars, nvars, rvars,
                   hreq, ovars, pvars, tvars, lvars, mvars>>

\* The sandbox or the child is started with the effective limits.
LaunchWithLimits ==
    /\ cpc = "clamped"
    /\ cpc' = "launched"
    /\ UNCHANGED <<creq, ceff, qvars, status, svars, jvars, xvars, nvars,
                   rvars, hreq, ovars, pvars, tvars, lvars, mvars>>

\* ------------------------------------------------ the start of the server
MaxModeReqs == 3

\* The values of the EXECUTION_MODE environment variable explored.
ExecutionModes == {"unset", "docker", "process"}

\* POST /api/execute, /api/judge and /api/batch-judge.
ModeRoutes == {"execute", "judge", "batch-judge"}

\* process.env of a deployment: the Dockerfiles set EXECUTION_MODE, NODE_ENV
\* and TEMP_DIR; a variable that is not set reads "unset".
ProcessEnv(mode) ==
    [EXECUTION_MODE |-> mode,
     NODE_ENV |-> IF mode = "process" THEN "production" ELSE "unset",
     SANDBOX_IMAGE |-> "unset",
     TEMP_DIR |-> "/tmp/judge"]

\* process.env.X || d
EnvOr(x, d) == IF x = "unset" THEN d ELSE x

\* module.exports of config.js: the keys read from the environment.  No key
\* is read from EXECUTION_MODE.
Config(env) ==
    [NODE_ENV |-> EnvOr(env.NODE_ENV, "development"),
     SANDBOX_IMAGE |-> EnvOr(env.SANDBOX_IMAGE, "judge-sandbox"),
     TEMP_DIR |-> EnvOr(env.TEMP_DIR, "/tmp/judge")]

\* obj.key: undefined for a key the object does not have.
Get(obj, key) == IF key \in DOMAIN obj THEN obj[key] ELSE "undefined"

\* require("../services/executor.service") in the routes and require(
\* "./executor.service") in the judge service: the ExecutorService instance.
executorService == "container"

\* The backend a route runs its submissions on: /execute calls
\* executorService.execute, the judge routes judgeService.judge, which calls
\* executorService.execute.
BackendOf(route) == executorService

\* No server start is followed.
NoMode ==
    /\ menv = "unset"
    /\ mdocker = FALSE
    /\ mimage = FALSE
    /\ mpc = "idle"
    /\ mused = {}
    /\ mserved = <<>>

\* bootstrap() step 1: process mode only logs; otherwise verifyDocker() runs
\* `docker info` and throws when it fails (bootstrap().catch exits).
VerifyMode ==
    /\ mpc = "boot"
    /\ IF Get(Config(ProcessEnv(menv)), "EXECUTION_MODE") = "process"
       THEN /\ mpc' = "ready"
            /\ UNCHANGED mused
       ELSE /\ mused' = mused \cup {"info"}
            /\ mpc' = IF mdocker THEN "verified" ELSE "exited"
    /\ UNCHANGED <<menv, mdocker, mimage, mserved, qvars, status, svars,
                   jvars, xvars, nvars, rvars, hreq, ovars, pvars, tvars,
                   lvars, cvars>>

\* buildSandboxImage(): `docker image inspect`, and `docker build` when the
\* image is missing; a failed build throws.
BuildSandboxImage ==
    /\ mpc = "verified"
    /\ IF mimage
       THEN /\ mused' = mused \cup {"inspect"}
            /\ mpc' = "ready"
            /\ UNCHANGED mimage
       ELSE \E built \in BOOLEAN :
                /\ mused' = mused \cup {"inspect", "build"}
                /\ mimage' = built
                /\ mpc' = IF built THEN "ready" ELSE "exited"
    /\ UNCHANGED <<menv, mdocker, mserved, qvars, status, svars, jvars,
                   xvars, nvars, rvars, hreq, ovars, pvars, tvars, lvars,
                   cvars>>

\* bootstrap() steps 2 and 3: ensureDir and app.listen.
Listen ==
    /\ mpc = "ready"
    /\ mpc' = "listening"
    /\ UNCHANGED <<menv, mdocker, mimage, mused, mserved, qvars, status,
                   svars, jvars, xvars, nvars, rvars, hreq, ovars, pvars,
                   tvars, lvars, cvars>>

\* One request served: its submission runs on the backend the route was
\* loaded with; the container backend runs `docker run`.
ServeRequest(route) ==
    /\ mpc = "listening"
    /\ Len(mserved) < MaxModeReqs
    /\ mserved' = Append(mserved, [route |-> route,
                                   backend |-> BackendOf(route)])
    /\ mused' = IF BackendOf(route) = "container"
                THEN mused \cup {"run"} ELSE mused
    /\ UNCHANGED <<menv, mdocker, mimage, mpc, qvars, status, svars, jvars,
                   xvars, nvars, rvars, hreq, ovars, pvars, tvars, lvars,
                   cvars>>

\* -------------------------------------------------------- specifications
\* No request received.
NoRequests ==
    /\ arrived = 0
    /\ req = [r \in Reqs |-> NoReq]

\* The admission queue driven by thunks that belong to no route.
Init ==
    /\ QInit
    /\ Up
    /\ NoMode
    /\ NoClamp
    /\ NoProc
    /\ NoTrunc
    /\ NoLife
    /\ NoRequests
    /\ jtc = <<>>
    /\ js = JudgeIdle
    /\ NoExec
    /\ NoNorm
    /\ NoRunner
    /\ NoGate

Next ==
    \/ EnqueueAsync
    \/ EnqueueThrowing
    \/ TaskResolves
    \/ TaskRejects
    \/ Wake
    \/ GetStatus

Spec == Init /\ [][Next]_vars

\* Scheduling: the event loop runs every setImmediate callback, and (the
\* hypothesis of the no-starvation claim) every started body finishes.
Fairness ==
    /\ WF_vars(Wake)
    /\ \A t \in Tasks : WF_vars(Complete(t, "value") \/ Complete(t, "error"))

\* The queue's own steps; getStatus() only observes.
FairNext ==
    \/ EnqueueAsync
    \/ EnqueueThrowing
    \/ TaskResolves
    \/ TaskRejects
    \/ Wake

FairSpec == Init /\ [][FairNext]_vars /\ Fairness

\* The server: the three POST routes in front of the queue.
ServerNext ==
    \/ PostExecute
    \/ PostJudgeAny
    \/ PostBatchJudgeAny
    \/ ExecuteReturnsAny
    \/ ExecuteRejectsAny
    \/ Wake

ServerSpec == Init /\ [][ServerNext]_vars

\* One judge() call on any list of test cases.
JudgeInit ==
    /\ QInit
    /\ Up
    /\ NoMode
    /\ NoClamp
    /\ NoProc
    /\ NoTrunc
    /\ NoLife
    /\ NoRequests
    /\ jtc \in TestCaseLists
    /\ js = JudgeStart
    /\ NoExec
    /\ NoNorm
    /\ NoRunner
    /\ NoGate

JudgeNext ==
    \/ JudgeExecuteReturns
    \/ JudgeExecuteRejects

JudgeSpec == JudgeInit /\ [][JudgeNext]_vars

\* One call of execute() (container backend) or batchExecute() (process
\* backend) with exceptions injected at the I/O steps.
ExecInit ==
    /\ QInit
    /\ Up
    /\ NoMode
    /\ NoClamp
    /\ NoProc
    /\ NoTrunc
    /\ NoLife
    /\ NoRequests
    /\ jtc = <<>>
    /\ js = JudgeIdle
    /\ backend \in {"container", "process"}
    /\ xlang \in LanguageTags
    /\ xn \in 1..MaxInputs
    /\ backend = "container" => xn = 1
    /\ xpc = "call"
    /\ workDir = "none"
    /\ xerr = NoError
    /\ xres = <<>>
    /\ xdocker = [exitCode |-> 0, oomKilled |-> FALSE, killed |-> FALSE]
    /\ xmeta = NoVerdict
    /\ xcase = 0
    /\ rmFailed = FALSE
    /\ NoNorm
    /\ NoRunner
    /\ NoGate

ExecNext ==
    \/ ExecuteCall
    \/ MkdirWorkDir
    \/ MkdirCodeDir
    \/ WriteFiles
    \/ Chmod
    \/ RunDocker
    \/ ReadResults
    \/ Compile
    \/ RunTestCase
    \/ Cleanup

ExecSpec == ExecInit /\ [][ExecNext]_vars


\* _normalize applied twice to any short string.
NormInit ==
    /\ QInit
    /\ Up
    /\ NoMode
    /\ NoClamp
    /\ NoProc
    /\ NoTrunc
    /\ NoLife
    /\ NoRequests
    /\ jtc = <<>>
    /\ js = JudgeIdle
    /\ NoExec
    /\ NoRunner
    /\ NoGate
    /\ nstr \in NormInputs
    /\ nout = <<>>

NormNext == NormalizeCall

NormSpec == NormInit /\ [][NormNext]_vars

\* The files and counters of a runner script at its first line.
RunnerStart(script, lang, n) ==
    /\ runner = script
    /\ rlang = lang
    /\ rnum = n
    /\ rcase = 0
    /\ rexit = 0
    /\ rmeta = [k \in 1..n |-> NoMeta]
    /\ rerr = [k \in 1..n |-> ""]
    /\ rcause = [k \in 1..n |-> "none"]

\* One run of a sandbox runner script, from its first line to exit 0.
RunnerInit ==
    /\ QInit
    /\ Up
    /\ NoMode
    /\ NoClamp
    /\ NoProc
    /\ NoTrunc
    /\ NoLife
    /\ NoRequests
    /\ jtc = <<>>
    /\ js = JudgeIdle
    /\ NoExec
    /\ NoNorm
    /\ NoGate
    /\ \E script \in RunnerKinds : \E lang \in LanguageTags :
         \E n \in 1..MaxRunCases :
            /\ script # "batch" => n = 1
            /\ RunnerStart(script, lang, n)
    /\ rpc = "compile"

RunnerNext ==
    \/ RunnerCompile
    \/ RunnerRunCase
    \/ DetermineVerdict

RunnerSpec == RunnerInit /\ [][RunnerNext]_vars

\* The verdict phase of each script on every value of RUN_EXIT: the script
\* is taken after the run of its only case.
TableInit ==
    /\ QInit
    /\ Up
    /\ NoMode
    /\ NoClamp
    /\ NoProc
    /\ NoTrunc
    /\ NoLife
    /\ NoRequests
    /\ jtc = <<>>
    /\ js = JudgeIdle
    /\ NoExec
    /\ NoNorm
    /\ NoGate
    /\ runner \in RunnerKinds
    /\ rlang \in RunnerLanguages
    /\ rnum = 1
    /\ rcase = 1
    /\ rexit \in ExitStatuses
    /\ rmeta = <<NoMeta>>
    /\ rerr = <<"">>
    /\ rcause = <<"exit">>
    /\ rpc = "ran"

TableNext == DetermineVerdict

TableSpec == TableInit /\ [][TableNext]_vars

\* One request, with any of the explored bodies, from its arrival to its
\* response.
GateInit ==
    /\ QInit
    /\ Up
    /\ NoMode
    /\ NoClamp
    /\ NoProc
    /\ NoTrunc
    /\ NoLife
    /\ NoRequests
    /\ jtc = <<>>
    /\ js = JudgeIdle
    /\ NoExec
    /\ NoNorm
    /\ NoRunner
    /\ hreq \in GateRequests

GateNext ==
    \/ GateExecute
    \/ GateJudge
    \/ GateBatchJudge
    \/ GateExecuteReturns
    \/ ExecuteRejectsAny
    \/ Wake

GateSpec == GateInit /\ [][GateNext]_vars

\* The admission queue in a process that a signal can stop at any turn.
ShutdownNext ==
    \/ QueueTurn
    \/ Shutdown

ShutdownSpec == Init /\ [][ShutdownNext]_vars

\* The _runProcess calls of one batchExecute() on any programs, with the two
\* timers and the events of the child in any order.
ProcInit ==
    /\ QInit
    /\ Up
    /\ NoMode
    /\ NoClamp
    /\ NoRequests
    /\ jtc = <<>>
    /\ js = JudgeIdle
    /\ NoExec
    /\ NoNorm
    /\ NoRunner
    /\ NoGate
    /\ NoTrunc
    /\ NoLife
    /\ pnum \in 1..MaxProcCases
    /\ pcur = 0
    /\ prog \in [1..pnum -> Programs]
    /\ proc = [k \in 1..pnum |-> "none"]
    /\ spawnTimer = [k \in 1..pnum |-> "none"]
    /\ timer = [k \in 1..pnum |-> "none"]
    /\ timedOut = [k \in 1..pnum |-> FALSE]
    /\ endedBy = [k \in 1..pnum |-> NoClose]
    /\ resolved = [k \in 1..pnum |-> NotResolved]
    /\ pverdict = [k \in 1..pnum |-> "none"]

ProcNext ==
    \/ SpawnChild
    \/ ChildEnds
    \/ SpawnTimeoutKill
    \/ ManualTimeoutKill
    \/ Close
    \/ SpawnError

ProcSpec == ProcInit /\ [][ProcNext]_vars

\* One run with verdict OK, from the program's output to the verdict of the
\* judge, in each backend.
TruncInit ==
    /\ QInit
    /\ Up
    /\ NoMode
    /\ NoClamp
    /\ NoProc
    /\ NoRequests
    /\ jtc = <<>>
    /\ js = JudgeIdle
    /\ NoExec
    /\ NoNorm
    /\ NoRunner
    /\ NoGate
    /\ tback \in {"container", "process"}
    /\ tout \in ProgramOutputs
    /\ texp \in ExpectedOutputs
    /\ tres = <<>>
    /\ tverdict = "none"
    /\ tpc = "ran"
    /\ NoLife

TruncNext ==
    \/ ExecuteTruncates
    \/ JudgeCompares

TruncSpec == TruncInit /\ [][TruncNext]_vars

\* One call of execute() (a single run in a container) or of batchExecute()
\* of the process backend (a compiler and one child per input).
LifeInit ==
    /\ QInit
    /\ Up
    /\ NoMode
    /\ NoClamp
    /\ NoProc
    /\ NoTrunc
    /\ NoRequests
    /\ jtc = <<>>
    /\ js = JudgeIdle
    /\ NoExec
    /\ NoNorm
    /\ NoRunner
    /\ NoGate
    /\ lback \in {"container", "process"}
    /\ ln \in IF lback = "container" THEN {1} ELSE 0..MaxLifeCases
    /\ lpc = "call"
    /\ ldir = "absent"
    /\ lbox = [k \in Boxes |-> "none"]
    /\ lcur = 1
    /\ lkilled = FALSE
    /\ llog = <<>>

LifeNext ==
    \/ CreateWorkDir
    \/ WriteWorkDir
    \/ DockerRun
    \/ SandboxIO
    \/ SandboxExit
    \/ DockerClientTimeout
    \/ DockerReturns
    \/ ReadWorkDir
    \/ SpawnProcess
    \/ ProcessClose
    \/ RemoveWorkDir

LifeSpec == LifeInit /\ [][LifeNext]_vars

\* The three loops over the cases of a submission, each followed on its own:
\* judge(), batchExecute() of the process backend, and the runner scripts.
OrderInit ==
    \/ JudgeInit
    \/ ProcInit
    \/ RunnerInit

OrderNext ==
    \/ JudgeNext
    \/ ProcNext
    \/ RunnerNext

OrderSpec == OrderInit /\ [][OrderNext]_vars

\* One call of the executor with any limits in its arguments.
ClampInit ==
    /\ QInit
    /\ Up
    /\ NoMode
    /\ NoProc
    /\ NoTrunc
    /\ NoLife
    /\ NoRequests
    /\ jtc = <<>>
    /\ js = JudgeIdle
    /\ NoExec
    /\ NoNorm
    /\ NoRunner
    /\ NoGate
    /\ creq \in [timeLimit : TimeLimits, memoryLimit : MemoryLimits]
    /\ ceff = NoLimits
    /\ cpc = "call"

ClampNext ==
    \/ ClampLimits
    \/ LaunchWithLimits

ClampSpec == ClampInit /\ [][ClampNext]_vars

\* One start of the server under each EXECUTION_MODE, on a host with or
\* without a docker daemon and sandbox image, and the requests it serves.
ModeInit ==
    /\ QInit
    /\ Up
    /\ NoClamp
    /\ NoProc
    /\ NoTrunc
    /\ NoLife
    /\ NoRequests
    /\ jtc = <<>>
    /\ js = JudgeIdle
    /\ NoExec
    /\ NoNorm
    /\ NoRunner
    /\ NoGate
    /\ menv \in ExecutionModes
    /\ mdocker \in BOOLEAN
    /\ mimage \in BOOLEAN
    /\ mdocker = FALSE => mimage = FALSE
    /\ mpc = "boot"
    /\ mused = {}
    /\ mserved = <<>>

ModeNext ==
    \/ VerifyMode
    \/ BuildSandboxImage
    \/ Listen
    \/ \E route \in ModeRoutes : ServeRequest(route)

ModeSpec == ModeInit /\ [][ModeNext]_vars
\* ================================================================ claims

InFlight == {t \in Tasks : phase[t] = "running"}

Settled(t) == fut[t].state # "pending"

\* C1: in every reachable state 0 <= running <= maxConcurrent, and a step
\* that starts a task body is taken only from a state with
\* running < maxConcurrent.
C1_ConcurrencyBound ==
    /\ [](running >= 0 /\ running <= MaxConcurrent)
    /\ [][Len(startSeq') > Len(startSeq) => running < MaxConcurrent]_vars

\* C1 case: all slots are taken, a task waits, and a task that had to wait
\* has already been started.
C1_Witness ==
    /\ running = MaxConcurrent
    /\ waiting # <<>>
    /\ Len(startSeq) > MaxConcurrent

\* C2: task bodies start in the order of the enqueue() calls (calls are
\* numbered in call order, so the i-th body started is that of call i).
C2_FifoStart ==
    \A i \in 1..Len(startSeq) : startSeq[i] = i

\* C2 case: an enqueue() ran between a completion and its wake-up while
\* another task was waiting, and every task has been started since.
C2_Witness ==
    /\ raced
    /\ Len(startSeq) = NumTasks

\* C3: if every started task eventually completes, every enqueued task is
\* eventually started and its future settled, and the queue never rests with
\* a waiting task, a free slot and no pending wake-up.
C3_NoStarvation ==
    /\ \A t \in Tasks :
           (phase[t] = "waiting") ~> (phase[t] = "done" /\ Settled(t))
    /\ [](~(waiting # <<>> /\ running < MaxConcurrent /\ pendingWake = 0))

\* C3 case: more than maxConcurrent tasks were admitted and all completed.
C3_Witness ==
    /\ enqueued = NumTasks
    /\ NumTasks > MaxConcurrent
    /\ \A t \in Tasks : phase[t] = "done" /\ Settled(t)
    /\ totalProcessed + totalFailed = NumTasks

\* C4: the future of an enqueue() call is settled at most once, only when
\* its own task body has finished, and with that body's outcome: resolved
\* iff the body produced a value, rejected iff it threw or rejected.
C4_FutureOutcome ==
    \A t \in Tasks :
        /\ settles[t] <= 1
        /\ Settled(t) <=> settles[t] = 1
        /\ Settled(t) <=> body[t] # "none"
        /\ Settled(t) => fut[t].from = t
        /\ fut[t].state = "resolved" <=> body[t] = "value"
        /\ fut[t].state = "rejected" <=> body[t] = "error"

\* C4 case: one future resolved, one rejected by a synchronous throw and one
\* rejected by an asynchronous failure.
C4_Witness ==
    /\ \E t \in Tasks : fut[t].state = "resolved"
    /\ \E t \in Tasks : fut[t].state = "rejected" /\ kind[t] = "throw"
    /\ \E t \in Tasks : fut[t].state = "rejected" /\ kind[t] = "async"

\* C5: running counts exactly the bodies in progress; the completion of a
\* body, with a value or an error alike, decrements running by one and
\* schedules one wake-up; and the head of the waiting list is started once a
\* slot is free.
C5_ReleaseOnCompletion ==
    /\ [](running = Cardinality(InFlight))
    /\ [][\A t \in Tasks :
             (phase[t] = "running" /\ phase'[t] = "done")
                 => /\ running' = running - 1
                    /\ pendingWake' = pendingWake + 1
                    /\ totalProcessed' + totalFailed'
                           = totalProcessed + totalFailed + 1]_vars
    /\ \A t \in Tasks :
           (phase[t] = "waiting" /\ running < MaxConcurrent
                /\ Head(waiting).task = t) ~> (phase[t] # "waiting")

\* C5 case: maxConcurrent tasks have failed and the queue runs at full
\* capacity again.
C5_Witness ==
    /\ totalFailed >= MaxConcurrent
    /\ running = MaxConcurrent

\* C6 as stated: whenever a task waits, running equals maxConcurrent, in the
\* queue and in every getStatus() snapshot.
C6_Original ==
    /\ waiting # <<>> => running = MaxConcurrent
    /\ status.waiting > 0 => status.running = status.maxConcurrent

\* C6 amended: whenever a task waits, running plus the wake-ups still pending
\* is at least maxConcurrent (so running = maxConcurrent unless a completion's
\* deferred wake-up has not run yet), running never exceeds maxConcurrent, and
\* a getStatus() snapshot taken with no wake-up pending shows
\* running = maxConcurrent when it shows a waiting task.
C6_WorkConservation ==
    /\ [](waiting # <<>> => /\ running + pendingWake >= MaxConcurrent
                            /\ running <= MaxConcurrent)
    /\ [](status.waiting > 0 => status.running <= status.maxConcurrent)
    /\ [][(status' # status /\ pendingWake = 0 /\ status'.waiting > 0)
             => status'.running = MaxConcurrent]_vars

\* C6 case: getStatus() observed a waiting task next to a free slot, and the
\* wake-up is still pending.
C6_Witness ==
    /\ status.waiting > 0
    /\ status.running < status.maxConcurrent
    /\ waiting # <<>>
    /\ running < MaxConcurrent
    /\ pendingWake > 0

\* executor.execute() calls in progress over all tasks
ExecInProgress == SumOver(execActive, Tasks)

\* Tasks of request r that are waiting or in flight
OpenTasks(r) == {t \in Tasks : treq[t] = r /\ phase[t] \in {"waiting", "running"}}

\* C7: over all requests on the three POST routes, at most maxConcurrent
\* executor.execute() calls are in progress at any time; a request has at
\* most one task waiting or in flight, and a task has at most one execute()
\* call in progress, and only while it holds a slot.
C7_SandboxBound ==
    /\ ExecInProgress <= MaxConcurrent
    /\ \A r \in Reqs : Cardinality(OpenTasks(r)) <= 1
    /\ \A t \in Tasks :
           /\ execActive[t] <= 1
           /\ execActive[t] > 0 => phase[t] = "running"

\* C7 case: requests on all three routes are open, maxConcurrent executions
\* are in progress, one of them for a later test case of a judge task, and
\* another task waits.
C7_Witness ==
    /\ ExecInProgress = MaxConcurrent
    /\ waiting # <<>>
    /\ \A ty \in {"execute", "judge", "batch"} :
           \E r \in Reqs : req[r].type = ty /\ req[r].resp = NoResp
    /\ \E t \in Tasks : execActive[t] = 1 /\ tjs[t].i >= 1

\* C8 as stated: once the call has returned, the work directory does not
\* exist, on every termination path, a failing removal included.
C8_Original ==
    xpc = "returned" => ~DirExists(workDir)

\* C9 as stated: for a supported language the promise of
\* execute()/batchExecute() never rejects, and an exception raised at any
\* step (work-directory creation included) is caught, the call returning IE
\* results, one per input, with empty output and the exception's message.
C9_Original ==
    (xlang \in Languages /\ xerr # NoError) =>
        /\ xpc \in {"cleanup", "returned"}
        /\ xres = IEResults(xn, xerr)

\* C10: the result list of a judge() call that returned has exactly N
\* entries, and entry i carries testCase = i and the (truncated) input and
\* expected output of test case i, whatever verdicts the executor returned.
C10_PerCaseLength ==
    js.pc = "returned" =>
        /\ Len(js.results) = Len(jtc)
        /\ JudgeReturn(js, jtc).totalTestCases = Len(js.results)
        /\ \A k \in 1..Len(js.results) :
               /\ js.results[k].testCase = k
               /\ js.results[k].input = JudgeTruncate(jtc[k].input, JudgeTruncLen)
               /\ js.results[k].expectedOutput
                      = JudgeTruncate(jtc[k].expectedOutput, JudgeTruncLen)

\* C10 case: a submission of at least three cases returned after a
\* compilation error on a case that is neither the first nor the last, an
\* earlier case having ended with IE.
C10_Witness ==
    /\ js.pc = "returned"
    /\ Len(jtc) >= 3
    /\ js.results[1].verdict = "IE"
    /\ js.results[2].verdict = "CE"
    /\ js.results[Len(jtc)].verdict = "SKIPPED"

\* Indices of the entries of a result list that carry one of the verdicts.
WithVerdict(results, verdicts) ==
    {k \in 1..Len(results) : results[k].verdict \in verdicts}

\* Indices of the entries that are not AC.
NotAC(results) == {k \in 1..Len(results) : results[k].verdict # "AC"}

\* C11: the object judge() returns has overallVerdict = AC if and only if
\* every per-case verdict is AC; the same holds of the locals after every
\* iteration of the loop.
C11_OverallAC ==
    /\ js.pc = "returned" =>
           (js.ret.overallVerdict = "AC" <=> NotAC(js.ret.results) = {})
    /\ js.overallVerdict = "AC" <=> NotAC(js.results) = {}

\* C11 case: a three-case submission returned whose first and last cases are
\* AC and whose second case is a wrong answer.
C11_Witness ==
    /\ js.pc = "returned"
    /\ Len(jtc) = 3
    /\ js.ret.results[1].verdict = "AC"
    /\ js.ret.results[2].verdict = "WA"
    /\ js.ret.results[3].verdict = "AC"
    /\ js.ret.overallVerdict = "WA"

\* C12: in the object judge() returns, passed counts the AC entries, skipped
\* the SKIPPED entries and failed all the others, so the three counters
\* partition the per-case results and passed + failed + skipped = N.
C12_CountersPartition ==
    js.pc = "returned" =>
        LET r == js.ret IN
        /\ r.passed + r.failed + r.skipped = Len(jtc)
        /\ r.totalTestCases = Len(jtc)
        /\ r.passed = Cardinality(WithVerdict(r.results, {"AC"}))
        /\ r.skipped = Cardinality(WithVerdict(r.results, {"SKIPPED"}))
        /\ r.failed = Cardinality((1..Len(r.results))
                                      \ WithVerdict(r.results, {"AC", "SKIPPED"}))

\* C12 case: a returned submission with a passed, a failed and a skipped
\* case.
C12_Witness ==
    /\ js.pc = "returned"
    /\ js.ret.passed = 1
    /\ js.ret.failed = 1
    /\ js.ret.skipped = 1

\* C13: firstFailedTestCase is null when every case is AC and otherwise the
\* smallest 1-based index whose verdict is not AC, and overallVerdict is the
\* verdict of that case.
C13_FirstFailure ==
    js.pc = "returned" =>
        LET r == js.ret
            bad == NotAC(r.results)
        IN  IF bad = {} THEN r.firstFailedTestCase = Null
            ELSE /\ r.firstFailedTestCase \in bad
                 /\ \A k \in bad : r.firstFailedTestCase <= k
                 /\ r.overallVerdict = r.results[r.firstFailedTestCase].verdict

\* C13 case: the first case passes and two later cases fail with different
\* verdicts.
C13_Witness ==
    /\ js.pc = "returned"
    /\ Len(jtc) = 3
    /\ js.ret.results[1].verdict = "AC"
    /\ js.ret.results[2].verdict = "TLE"
    /\ js.ret.results[3].verdict = "RE"
    /\ js.ret.firstFailedTestCase = 2

\* The code does not compile: the first execute() of the submission came
\* back with CE.
CompileFailed == js.pc = "returned" /\ js.ret.results[1].verdict = "CE"

LastJudged ==
    js.results[Len(js.results) - Cardinality(WithVerdict(js.results, {"SKIPPED"}))]

\* C15: a run result whose verdict is not OK gives that verdict as the
\* per-case verdict whatever the outputs are; a run result whose verdict is
\* OK gives AC when the normalised actual output equals the normalised
\* expected output, and WA otherwise.
C15_VerdictRule ==
    js.result # NoResult =>
        LET e == LastJudged
            expected == jtc[e.testCase].expectedOutput
        IN  /\ js.result.verdict # "OK" => e.verdict = js.result.verdict
            /\ js.result.verdict = "OK" =>
                   /\ e.verdict \in {"AC", "WA"}
                   /\ e.verdict = "AC"
                          <=> Normalize(js.result.output) = Normalize(expected)

\* C15 case: the run crashed after printing exactly the expected output.
C15_Witness ==
    /\ js.result.verdict = "RE"
    /\ js.result.output = <<"a">>
    /\ Normalize(jtc[LastJudged.testCase].expectedOutput) = <<"a">>
    /\ LastJudged.verdict = "RE"

\* C16: normalising the result of a normalisation changes nothing, for every
\* string of CR, LF, blanks, tabs and letters in any order, for the empty
\* string and for the absent string; the result of a normalisation has no
\* CR LF pair, no line ending in a blank, a tab or a CR, and no white space
\* at its end.
C16_NormalizeIdempotent ==
    /\ Len(nout) = 2 => nout[2] = nout[1]
    /\ Len(nout) >= 1 =>
           LET out == nout[1] IN
           /\ out # <<>> => ~IsSpace(out[Len(out)])
           /\ \A k \in 1..(Len(out) - 1) :
                  out[k + 1] = "\n" => out[k] \notin {" ", "\t", "\r"}

\* C16 case: a line that ends with a tab and CR LF was normalised twice.
C16_Witness ==
    /\ nstr = <<"a", "\t", "\r", "\n">>
    /\ Len(nout) = 2
    /\ nout[1] = <<"a">>

\* C17 as stated: a case whose child ended by itself, within the time limit
\* and below the memory limit, is never recorded as TLE or MLE whatever its
\* exit status: its verdict is OK, RE or CE.
C17_Original ==
    \A k \in 1..rnum :
        (rcause[k] = "exit" /\ rmeta[k] # NoMeta) =>
            rmeta[k].verdict \in {"OK", "RE", "CE"}

\* The verdict table as data: exit status, verdict, line appended to stderr.
ExitTable ==
    {<<124, "TLE", "">>,
     <<137, "MLE", "">>,
     <<139, "RE", "Segmentation fault (SIGSEGV)">>,
     <<136, "RE", "Floating point exception (SIGFPE)">>,
     <<134, "RE", "Aborted (SIGABRT)">>,
     <<0, "OK", "">>}

\* C18: for every exit status of the child, each of the runner scripts
\* records TLE for 124, MLE for 137, RE with the signal's message appended
\* to stderr for 139, 136 and 134, RE without message for any other status
\* that is not 0, and OK for 0, together with the status itself; every
\* status gets a verdict.
C18_ExitTable ==
    \A k \in 1..rnum :
        rcause[k] # "none" /\ (rpc = "exited" \/ k < rcase) =>
            LET s == rmeta[k].exitCode IN
            /\ s \in ExitStatuses
            /\ rmeta[k].verdict \in {"TLE", "MLE", "RE", "OK"}
            /\ \A row \in ExitTable :
                   s = row[1] => rmeta[k].verdict = row[2] /\ rerr[k] = row[3]
            /\ s \notin {row[1] : row \in ExitTable} =>
                   rmeta[k].verdict = "RE" /\ rerr[k] = ""

\* C18 case: the batch runner recorded a child that died of SIGFPE.
C18_Witness ==
    /\ runner = "batch"
    /\ rpc = "exited"
    /\ rmeta[1] = WriteMeta("RE", "measured", "measured", 136)
    /\ rerr[1] = "Floating point exception (SIGFPE)"

\* The container backend has built its result from the files of the sandbox.
ContainerReturned ==
    /\ backend = "container"
    /\ xpc \in {"cleanup", "returned"}
    /\ xerr = NoError

\* C19: the container backend returns the verdict of the meta record
\* unchanged whenever there is one, whatever the exit of the sandbox (killed
\* by the submission-level timeout included); without a verdict in meta it
\* returns MLE when the sandbox exit is 137, RE when it is any other
\* non-zero value (timeout kill and launch failure included) and IE when it
\* is 0.
C19_VerdictAttribution ==
    ContainerReturned =>
        LET verdict == xres[1].verdict IN
        /\ xmeta # NoVerdict => verdict = xmeta
        /\ xmeta = NoVerdict =>
               /\ xdocker.exitCode = 137 => verdict = "MLE"
               /\ xdocker.exitCode \notin {0, 137} => verdict = "RE"
               /\ xdocker.exitCode = 0 => verdict = "IE"
               /\ xdocker.killed => verdict = "RE"
               /\ xdocker.exitCode = SpawnErrorCode => verdict = "RE"

\* C19 case: the timeout killed the sandbox after the runner had recorded
\* OK.
C19_Witness ==
    /\ ContainerReturned
    /\ xdocker.killed
    /\ xmeta = "OK"
    /\ xres[1].verdict = "OK"

\* Submission k of the request followed does not pass the schema of its
\* route (judgeSchema for the submissions of a batch).
InvalidSubmission(k) ==
    IF hreq.route = "execute" THEN ~ValidExecute(hreq.bodies[k])
    ELSE ~ValidJudge(hreq.bodies[k])

\* C20 as stated: on /execute, /judge and for each submission of
\* /batch-judge, an invalid submission is never enqueued, the executor is
\* never called for it, and the request that carries it is answered 400.
C20_Original ==
    \A k \in 1..Len(hreq.bodies) :
        InvalidSubmission(k) =>
            /\ enqueued < k
            /\ \A t \in Tasks : t >= k => execActive[t] = 0
            /\ arrived = 1 => req[1].resp \in {NoResp, 400}
            /\ (arrived = 1 /\ hreq.route # "batch") => req[1].resp = 400


\* ---------------------------------------------------------------------
\* C21 (as stated): when the process shuts down on SIGTERM/SIGINT, every
\* task still in the waiting list has its future rejected (with a shutdown
\* error) before the process exits; no waiting future is left unsettled.
C21_Original ==
    exited =>
        \A t \in Tasks : phase[t] = "waiting" => fut[t].state = "rejected"

\* ---------------------------------------------------------------------
\* config.VERDICTS: the catalogue of verdict tags, published by
\* GET /api/languages.
Verdicts == {"AC", "WA", "TLE", "MLE", "RE", "CE", "IE"}

\* C22 (as stated): every per-case verdict of a judge result is one of AC,
\* WA, TLE, MLE, RE, CE, IE, and so is the overall verdict; no other tag
\* appears in a result.
C22_Original ==
    js.pc = "returned" =>
        /\ \A k \in 1..Len(js.ret.results) :
               js.ret.results[k].verdict \in Verdicts
        /\ js.ret.overallVerdict \in Verdicts

\* ---------------------------------------------------------------------
\* No execute() call of the judge() that returned ended in another way than
\* through its sandbox.
AllThroughSandbox ==
    \A k \in 1..Len(js.ret.results) :
        js.ret.results[k].verdict \in {"AC", "WA", "CE", "TLE", "SKIPPED"}

\* C23 (as stated): for one judged submission with N test cases exactly one
\* execution environment is launched and the source is compiled exactly
\* once; the N cases run against that single build.
C23_Original ==
    (js.pc = "returned" /\ AllThroughSandbox) =>
        /\ js.sandboxes = 1
        /\ js.compilations = 1

\* ---------------------------------------------------------------------
\* C24 (as stated): if running < maxConcurrent when enqueue(task) is called,
\* that task is started within the call; otherwise it is appended to the
\* waiting list.
C24_Original ==
    [][enqueued' = enqueued + 1 =>
          LET t == enqueued'
          IN  IF running < MaxConcurrent
              THEN phase'[t] # "waiting"
              ELSE phase'[t] = "waiting"]_vars

\* C24 amended: if running < maxConcurrent and nothing waits when
\* enqueue(task) is called, the task is started within the call.  Otherwise
\* it is appended to the tail of the waiting list and is still waiting when
\* the call ends; the call then starts the oldest waiting task if
\* running < maxConcurrent and starts nothing if not.  A waiting task leaves
\* the list only as its head, in a step taken with running < maxConcurrent.
C24_AdmissionRule ==
    /\ [][enqueued' = enqueued + 1 =>
            LET t == enqueued'
            IN  IF running < MaxConcurrent /\ waiting = <<>>
                THEN /\ startSeq' = Append(startSeq, t)
                     /\ phase'[t] \in {"running", "done"}
                     /\ waiting' = <<>>
                ELSE /\ phase'[t] = "waiting"
                     /\ waiting'[Len(waiting')] = Entry(t)
                     /\ startSeq' = IF running < MaxConcurrent
                                    THEN Append(startSeq, Head(waiting).task)
                                    ELSE startSeq]_vars
    /\ [][\A t \in Tasks :
             (phase[t] = "waiting" /\ phase'[t] # "waiting")
                 => /\ running < MaxConcurrent
                    /\ Head(waiting).task = t]_vars

\* C24 case: an enqueue() found a free slot and a waiting task, the task it
\* brought is the last of the list, and a wake-up is still to run.
C24_Witness ==
    /\ raced
    /\ pendingWake > 0
    /\ waiting # <<>>
    /\ waiting[Len(waiting)].task = enqueued
    /\ Len(startSeq) < enqueued

\* ---------------------------------------------------------------------
\* C25 (as stated): execute()/batchExecute() called with a language tag that
\* is not in the catalogue throws 'Unsupported language' before a work
\* directory is created, a file written or a sandbox launched.
C25_Original ==
    xlang \notin Languages =>
        /\ xpc \in {"call", "threw"}
        /\ xpc = "threw" => xerr = "Unsupported language"
        /\ workDir = "none"

\* ---------------------------------------------------------------------
\* The child of call k was still running when the time limit elapsed: one of
\* the two timers ended it.
RunsOverTime(k) == endedBy[k].by \in {"spawn", "timer"}

\* C26 (as stated): in the process backend a child still running when the
\* time limit elapses is killed and the case is reported TLE, in every order
\* of the kill by spawn's timeout, the timer of _runProcess and the 'close'
\* event; and that timer is cleared on 'close'/'error', so it is not armed
\* once the call has resolved.
C26_Original ==
    \A k \in 1..pnum :
        resolved[k].settled =>
            /\ RunsOverTime(k) => pverdict[k] = "TLE"
            /\ timer[k] # "armed"

\* ---------------------------------------------------------------------
\* The exit status a shell reports for the way the child of call k ended:
\* the exit code, 128 + n for signal n, 127 for a command that could not be
\* started, and 124, the status of timeout(1), for a child stopped at the
\* time limit.
ShellStatus(k) ==
    IF proc[k] = "failed" THEN 127
    ELSE IF RunsOverTime(k) THEN 124
    ELSE IF endedBy[k].signal # "none" THEN 128 + SigNum(endedBy[k].signal)
    ELSE endedBy[k].code

\* The child of call k ended by itself and no timer fired before the
\* 'close' event.
EndedInTime(k) ==
    /\ proc[k] = "closed"
    /\ endedBy[k].by = "self"
    /\ timer[k] = "cleared"
    /\ spawnTimer[k] = "cleared"

\* C27 (as stated): for every way a child can end (exit code, signal,
\* failure to spawn), _runTestCase gives the verdict the table of the
\* sandbox runner gives to the corresponding shell exit status: SIGKILL
\* without timeout is MLE, SIGSEGV, SIGFPE and SIGABRT are RE.
C27_Original ==
    \A k \in 1..pnum :
        (resolved[k].settled /\ (EndedInTime(k) \/ proc[k] = "failed")) =>
            pverdict[k] = BatchRow(ShellStatus(k)).verdict

\* ---------------------------------------------------------------------
\* C28 (as stated): for a run whose verdict is OK the judge's verdict is AC
\* if and only if the program's complete output and the expected output are
\* equal after normalisation, whatever the length of the output.
C28_Original ==
    tpc = "judged" =>
        (tverdict = "AC" <=> Normalize(tout) = Normalize(texp))

JudgeInOrder ==
    /\ js.pc = "exec" => Len(js.results) = js.i
    /\ \A k \in 1..Len(js.results) :
           /\ js.results[k].testCase = k
           /\ js.results[k].input = JudgeTruncate(jtc[k].input, JudgeTruncLen)
           /\ js.results[k].expectedOutput =
                  JudgeTruncate(jtc[k].expectedOutput, JudgeTruncLen)

ProcessInOrder ==
    \A k \in 1..pnum :
        /\ proc[k] # "none" =>
               /\ k <= pcur
               /\ \A j \in 1..(k - 1) :
                      resolved[j].settled /\ proc[j] \in {"closed", "failed"}
        /\ (resolved[k].settled /\ endedBy[k].by = "self") =>
               /\ endedBy[k].code = prog[k].code
               /\ endedBy[k].signal = prog[k].signal

RunnerInOrder ==
    rpc \in {"run", "ran", "exited"} =>
        \A k \in 1..rnum :
            /\ k > rcase => rcause[k] = "none"
            /\ (k < rcase /\ rpc # "exited") =>
                   rcause[k] # "none" /\ rmeta[k] # NoMeta
            /\ rcause[k] = "none" =>
                   rmeta[k] = NoMeta \/ rmeta[k].verdict \in {"IE", "CE"}

C30_IndexOrder ==
    /\ JudgeInOrder
    /\ ProcessInOrder
    /\ RunnerInOrder

\* The second child of a batchExecute() call runs, the first one has ended
\* and its result is recorded.
C30_Witness ==
    /\ pnum >= 2
    /\ proc[2] = "running"
    /\ proc[1] = "closed"
    /\ resolved[1].settled

WithMeta == {k \in 1..rnum : rmeta[k].verdict # ""}

\* C32: at every point of a run of the batch runner the cases with a meta
\* record form a prefix 1..k of 1..N, which in the running phase is the
\* cases before the current one; once the runner has exited (unsupported
\* language, failed compilation, all cases run: always with exit 0) every
\* case has a record with a verdict.
C32_MetaPrefix ==
    (runner = "batch" /\ rpc # "idle") =>
        /\ \E j \in 0..rnum : WithMeta = 1..j
        /\ rpc \in {"run", "ran"} => WithMeta = 1..(rcase - 1)
        /\ rpc = "exited" =>
               /\ WithMeta = 1..rnum
               /\ \A k \in 1..rnum :
                      rmeta[k].verdict \in
                          {"OK", "TLE", "MLE", "RE", "CE", "IE"}

\* C32 case: the batch runner is running its second case; killed here it
\* leaves a record for the first case only.
C32_Witness ==
    /\ runner = "batch"
    /\ rnum >= 2
    /\ rpc = "run"
    /\ rcase = 2
    /\ WithMeta = {1}

\* ---------------------------------------------------------------------
\* C33: when the compilation (or the syntax check, or its timeout) fails in
\* the batch runner, no case is run and every case gets a meta record with
\* verdict CE, time 0 and memory 0 and the compiler's output as its stderr,
\* and the runner exits.
C33_CompileFailure ==
    (runner = "batch" /\ rpc = "exited" /\ rcase = 0
         /\ rlang \in RunnerLanguages) =>
        \A k \in 1..rnum :
            /\ rcause[k] = "none"
            /\ rmeta[k] = WriteMeta("CE", "0", "0", 1)
            /\ rerr[k] = "compiler output"

\* C33 case: a batch of two cases whose compilation failed.
C33_Witness ==
    /\ runner = "batch"
    /\ rpc = "exited"
    /\ rnum = 2
    /\ rlang = "cpp"
    /\ rmeta[2].verdict = "CE"

\* ---------------------------------------------------------------------
\* C34: once a test case of a judge() call has the verdict CE, execute() is
\* not called for a later case (the loop has ended, with as many execute()
\* calls as cases up to the failing one), and every later index is present
\* in the result list, as a skipped entry.
C34_StopOnCE ==
    \A k \in 1..Len(js.results) :
        js.results[k].verdict = "CE" =>
            /\ js.pc = "returned"
            /\ js.i = k - 1
            /\ js.sandboxes <= k
            /\ Len(js.results) = Len(jtc)
            /\ \A j \in (k + 1)..Len(jtc) :
                   /\ js.results[j].testCase = j
                   /\ js.results[j].verdict = "SKIPPED"

\* C34 case: the second of three cases came back CE.
C34_Witness ==
    /\ Len(jtc) = 3
    /\ js.pc = "returned"
    /\ js.results[1].verdict # "CE"
    /\ js.results[2].verdict = "CE"
    /\ js.results[3].verdict = "SKIPPED"

\* ---------------------------------------------------------------------
\* The enqueue() calls made for request r.
TasksOf(r) == {t \in 1..enqueued : treq[t] = r}

\* C35: the submissions of a batch-judge request are enqueued one after the
\* other in request order: at most one of them is waiting or running, a
\* submission is enqueued only when the futures of all those before it have
\* resolved, results[i] is the value of the task of submissions[i], and a
\* request with no submission or more than 10 is answered 400 with nothing
\* enqueued.
C35_BatchSequential ==
    \A r \in 1..arrived :
        req[r].type = "batch" =>
            LET ts == TasksOf(r)
                subs == req[r].subs
                results == req[r].results
            IN  /\ Cardinality({t \in ts : phase[t] \in {"waiting", "running"}})
                       <= 1
                /\ Len(subs) \notin 1..BatchMax =>
                       req[r].resp = 400 /\ ts = {}
                /\ Cardinality(ts) <= Len(results) + 1
                /\ \A i \in 1..Len(results) :
                       LET t == results[i]
                       IN  /\ t \in ts
                           /\ Cardinality({u \in ts : u < t}) = i - 1
                           /\ ttc[t] = CasesOf(subs[i])
                           /\ fut[t].state = "resolved"
                /\ req[r].resp = 200 => Len(results) = Len(subs)

\* C35 case: a batch of two submissions was answered after tasks of other
\* requests ran between its two tasks, and a batch of 11 was refused.
C35_Witness ==
    \E r \in 1..arrived : \E b \in 1..arrived :
        /\ req[r].type = "batch"
        /\ req[r].resp = 200
        /\ Len(req[r].results) = 2
        /\ req[r].results[2] > req[r].results[1] + 1
        /\ req[b].type = "batch"
        /\ Len(req[b].subs) = BatchMax + 1
        /\ req[b].resp = 400

\* ---------------------------------------------------------------------
\* C36 (as stated): the submissions of a batch-judge request are
\* independent: when the request is answered every submission has been
\* given to the queue, whether the task of an earlier one rejected or not,
\* and the answer reports the results of the submissions that were judged.
C36_Original ==
    \A r \in 1..arrived :
        (req[r].type = "batch" /\ Len(req[r].subs) \in 1..BatchMax
             /\ req[r].resp # NoResp) =>
            /\ Cardinality(TasksOf(r)) = Len(req[r].subs)
            /\ req[r].resp = 200

\* ---------------------------------------------------------------------
\* The tasks whose future is in state s.
FuturesIn(s) == {t \in Tasks : fut[t].state = s}

\* The counters and the lists account for every enqueue() call.
Accounted ==
    /\ enqueued = Len(waiting) + running + totalProcessed + totalFailed
    /\ totalProcessed = Cardinality(FuturesIn("resolved"))
    /\ totalFailed = Cardinality(FuturesIn("rejected"))
    /\ \A t \in Tasks : settles[t] <= 1
    /\ \A t \in Tasks :
           Cardinality({i \in 1..Len(waiting) : waiting[i].task = t})
               + (IF phase[t] = "running" THEN 1 ELSE 0)
               + settles[t]
               = (IF t <= enqueued THEN 1 ELSE 0)

\* C37: in every state the number of enqueue() calls equals waiting.length
\* + running + totalProcessed + totalFailed; totalProcessed is the number of
\* futures resolved and totalFailed the number of futures rejected; every
\* task is in exactly one of the four places; the two counters never
\* decrease.
C37_Accounting ==
    /\ []Accounted
    /\ [][/\ totalProcessed' >= totalProcessed
          /\ totalFailed' >= totalFailed]_vars

\* C37 case: tasks wait, one runs, one has resolved and one has rejected.
C37_Witness ==
    /\ waiting # <<>>
    /\ running > 0
    /\ totalProcessed > 0
    /\ totalFailed > 0

\* ---------------------------------------------------------------------
\* C38 (as stated): whatever limits are requested (absent, 0 and values
\* above the maxima included), the limits the sandbox or the child is
\* started with are min(requested or default, maximum), and so lie in the
\* validated ranges [1, MAX_TIME_LIMIT] and [16, MAX_MEMORY_LIMIT].
C38_Original ==
    cpc = "launched" =>
        /\ ceff.timeLimit =
               Min(OrDefault(creq.timeLimit, DefaultTimeLimit), MaxTimeLimit)
        /\ ceff.memoryLimit =
               Min(OrDefault(creq.memoryLimit, DefaultMemoryLimit),
                   MaxMemoryLimit)
        /\ ceff.timeLimit \in 1..MaxTimeLimit
        /\ ceff.memoryLimit \in MinMemoryLimit..MaxMemoryLimit

\* C39: the backend that serves requests is the one EXECUTION_MODE selects
\* at startup (process: the direct-subprocess backend, otherwise the
\* container backend), the same one for every request, and in process mode
\* no container runtime is required or invoked.
C39_Original ==
    /\ \A i \in 1..Len(mserved) :
           mserved[i].backend =
               IF menv = "process" THEN "process" ELSE "container"
    /\ menv = "process" => (mused = {} /\ mpc # "exited")
====
